---- MODULE Spec2Model ----
(***************************************************************************)
(* Model of the OpenStress task scheduling core.                           *)
(*                                                                         *)
(* Part 1 (SpecPool, SpecPoolNoAdjust, SpecPoolAdjust, SpecPoolStatus):    *)
(* the heap-based goroutine pool, package pool with TaskQueue / Pool /     *)
(* worker / executeTask / Submit / rePushTasks / Shutdown / Pause /        *)
(* Resume / AdjustWorkers / GetTaskStatus.  The pool takes no lock around  *)
(* the queue, so Submit, rePushTasks, heap.Push, heap.Pop and              *)
(* GetTaskStatus are split at every read or write of the slice header and  *)
(* of its backing array.                                                   *)
(*                                                                         *)
(* Part 2 (SpecTask): TaskDetail of src/pool/task.go: Start, executeTask,  *)
(* executeWithTimeout, retry, Cancel, checkDependencies.                   *)
(*                                                                         *)
(* Part 3 (SpecAnts): the ants-based Pool of src/OpenStress/pool/pool.go:   *)
(* Submit's worker-slot arithmetic and its hand-over to the ants pool.     *)
(*                                                                         *)
(* Part 4 (SpecList): the list-based Pool of src/pool/pool.go.             *)
(*                                                                         *)
(* Part 5 (SpecSvc): StressLogger of src/pool/log.go and the Collector,    *)
(* with Close, CloseCollector and InitializeCollector.                     *)
(*                                                                         *)
(* Part 6 (SpecWg, SpecWgWorkers): the WaitGroup-based Pool, whose         *)
(* TaskQueue is shared without a lock as in part 1 and is stepped through  *)
(* by the same actions.                                                    *)
(*                                                                         *)
(* Part 7 (SpecMon): Monitor of src/pool/monitor.go.                       *)
(***************************************************************************)
EXTENDS Integers, Sequences, FiniteSets, TLC

\* ------------------------------------------------------------------ bounds
MaxTasks == 2        \* number of Submit calls explored
MaxProcs == 2        \* number of worker goroutines ever spawned
MaxN == 2            \* largest maxWorkers passed to NewPool / AdjustWorkers
MaxQueue == 4        \* longest queue explored: heap.Push waits at this length
MaxStarts == 1       \* explicit Pool.Start calls after NewPool
MaxPriority == 2     \* priorities passed to Submit are 1..MaxPriority
MaxRetriesBound == 2 \* TaskDetail.MaxRetries ranges over 0..MaxRetriesBound
MaxStartCallers == 2 \* calls of TaskDetail.Start made on one task
MaxAntsSubmits == 3  \* Submit calls explored on the ants-based pool
MaxArrays == 4       \* backing arrays of p.tasks alive at the same time
MaxExec == 2         \* times one task's fn is started (a re-pushed task runs again)
MaxDeficit == 2      \* activeWorkers is explored down to -MaxDeficit
MaxSubmitters == 2   \* goroutines that call Submit of the WaitGroup-based pool at the same time

\* --------------------------------------------------------- program constants
PoolMaxRetries == 3  \* Submit: maxRetries: 3
MaxInt32 == 2147483647   \* largest value of threadIDCounter (int32)

\* TaskStatus
TaskPending == 0
TaskRunning == 1
TaskCompleted == 2
TaskFailed == 3
TaskCancelled == 4
TaskTimeout == 5

Priorities == 1..MaxPriority
\* the argument lists (priority, retries, timeout, isRepeating) of the Submit calls
\* explored: a plain task, a repeating task of higher priority with timeout zero,
\* and a task whose retries are used up
SubmitArgs == {[priority |-> 1, retries |-> 0, timeout |-> 1, rep |-> FALSE],
               [priority |-> 2, retries |-> 0, timeout |-> 0, rep |-> TRUE],
               [priority |-> 1, retries |-> PoolMaxRetries, timeout |-> 1, rep |-> FALSE]}
TaskIds == 1..MaxTasks
Procs == 1..MaxProcs

VARIABLES
    \* ---- Pool (heap-based)
    maxWorkers,      \* Pool.maxWorkers
    activeWorkers,   \* Pool.activeWorkers
    tasks,           \* Pool.tasks : TaskQueue, the heap array (sequence of task ids)
    isPaused,        \* Pool.isPaused (0/1)
    shutdownFlag,    \* Pool.shutdownFlag (0/1)
    workerExit,      \* Pool.workerExit channel: "open" / "closed"; p.ctx is cancelled with it
    isRepeating,     \* Pool.isRepeating
    crashed,         \* the process died of a panic nobody recovers
    task,            \* the Task structs created by Submit: id -> [priority, retries, maxRetries, timeout]
    nSubmitted,      \* number of Submit calls so far
    startCalls,      \* number of explicit Pool.Start calls so far
    wpc,             \* worker goroutine -> position in Pool.worker
    wtask,           \* worker goroutine -> task it popped (0: none)
    wfn,             \* worker goroutine -> state of the goroutine executeTask waits for:
                     \* "none", "spawned" (started by the go statement, task.fn not
                     \* called yet), "running" (inside task.fn), "panicked"
    orphans,         \* task id -> the goroutines abandoned by executeTask on ctx.Done():
                     \* how many have not called task.fn yet (spawned) and how many
                     \* are inside it (running)
    execCount,       \* task id -> number of times task.fn was started
    pausedSubs,      \* ids submitted since the last Pause and before the next Resume
    mem,             \* backing arrays of p.tasks: array -> its slots (task ids, 0 for nil)
    tasksArr,        \* the array the header stored in p.tasks points to
    hpc,             \* goroutine -> position in heap.Push: "none" / "read" / "store" / "upLen" /
                     \* "upLess" / "upSwap" / "next" (heap.Push has returned)
    loc,             \* goroutine -> its locals inside rePushTasks, heap.Push and heap.Pop
    spc,             \* task id -> position of the Submit call that creates it: "idle" / "push" / "done"
    statpc,          \* position of the caller of GetTaskStatus: "idle" / "scan" / "found" / "notFound"
    statloc,         \* its locals: the id asked for, the header copied by range, the next index
    lateSubs,        \* ids whose Submit call began after shutdownFlag was set
    \* ---- TaskDetail
    td,              \* task id -> TaskDetail record
    tpc,             \* task id -> position of the Start call that won the CompareAndSwap
    gpc,             \* task id -> position of the executeTask chain (in the caller or its goroutine)
    cpc,             \* task id -> position of a caller of Cancel
    attempts,        \* task id -> number of invocations of Execute
    startRet,        \* task id -> what that Start call returned ("none" while it has not)
    startWins,       \* task id -> number of Start calls whose CompareAndSwap succeeded
    startErrs,       \* task id -> number of Start calls that returned "not in pending status"
    \* ---- ants-based Pool (shares maxWorkers, isPaused, shutdownFlag, crashed,
    \*      nSubmitted, startCalls with the struct above)
    threadIDCounter, \* Pool.threadIDCounter (int32)
    threadIDs,       \* the threadID computed by each Submit call, in call order
    antsBusy,        \* goroutines of the ants pool that are running a task
    antsSubmit,      \* position of the caller of Submit: "idle" / "handoff"
    antsWpc,         \* goroutine of Pool.worker -> position: "none" / "chkShutdown" / "chkPause" /
                     \* "submit" (in p.taskPool.Submit) / "exited"
    antsReleased,    \* p.taskPool.Release() has been called
    antsShut,        \* position of the caller of Shutdown: "idle" / "release" / "returned"
    \* ---- list-based Pool (src/pool/pool.go; shares maxWorkers and crashed)
    taskList,        \* Pool.taskList: the sync.Map with keys 0..n-1, as the sequence of its values
    lprio,           \* task id -> Task.priority given to AddTask
    apc,             \* caller of AddTask -> position: "idle" / "store" / "done"
    alocal,          \* caller of AddTask -> its local slice taskList
    aidx,            \* caller of AddTask -> next key its Store loop writes
    stopChannel,     \* Pool.stopChannel: "open" / "closed"
    stopCloses,      \* number of close(p.stopChannel) statements executed
    tickLeft,        \* a tick is still buffered in ticker.C after ticker.Stop()
    lstart,          \* position of the caller of Start(runDuration): "idle" / "waiting" / "returned"
    lctl,            \* position of the goroutine of Start: "none" / "spawn" / "loop" / "done"
    lstop,           \* position of the caller of Stop: "idle" / "waiting" / "returned"
    lwpc,            \* worker closure -> position: "none" / "select" / "exec" / "sleep" / "exited"
    lwlist,          \* worker closure -> its localTaskList
    lwpos,           \* worker closure -> index in localTaskList of the task it executes
    lwretries,       \* worker closure -> the local retries of executeWithRetry
    \* ---- StressLogger (src/pool/log.go) and Collector (src/unnamed/part_013)
    logChan,         \* StressLogger.logChan: number of entries buffered in the channel
    logClosed,       \* close(l.logChan) has been executed
    logs,            \* len(logs) in the goroutine of StressLogger.start
    lgpc,            \* position of that goroutine: "recv" / "flush" / "final" (the flush after
                     \* the loop) / "exited"
    dataChan,        \* Collector.dataChan: the channel the field refers to (0: no collector)
    chans,           \* channel made for dataChan -> [len: records buffered, closed]
    done,            \* Collector.done: "open" / "closed"
    callpc,          \* worker -> position in its call: "idle" / "log" (in Log) / "dropLog" (in the Log call of CollectResult)
    conspc,          \* consumer goroutine of processData -> position: "none" / "start" / "recv" /
                     \* "lock" / "save" / "saveLog" (in the Log call of Save...Result) /
                     \* "log" (in the Log call of processData) / "exited"
    conschan,        \* consumer goroutine -> the channel its range loop receives from (0: the
                     \* range expression is not evaluated yet)
    collMu,          \* Collector.mu: 0 when free, else the consumer that holds it
    ctlpc,           \* position of the goroutine that calls Close, CloseCollector and
                     \* InitializeCollector: "idle" / "logWait" / "closeDone" / "drain" /
                     \* "closeLog" / "initLog"
    nInits,          \* number of InitializeCollector calls so far
    \* ---- WaitGroup-based Pool (src/unnamed/part_011; shares maxWorkers, tasks, task, crashed,
    \* nSubmitted, wpc, wtask, execCount, and mem, tasksArr, hpc, loc of its own TaskQueue)
    wgCount,         \* the counter of Pool.wg
    wgWaiters,       \* the waiter count of Pool.wg: goroutines registered by Wait
    wgSema,          \* the semaphore of Pool.wg: wake-ups released and not yet taken
    ctxDone,         \* p.cancel() has been called: p.ctx.Done() is closed
    shutpc,          \* position of the caller of Shutdown: "idle" / "wait" (p.cancel() done,
                     \* entering p.wg.Wait()) / "waiting" (registered as a waiter, asleep on
                     \* the semaphore) / "returned"
    \* ---- Monitor (src/pool/monitor.go)
    monWg,           \* the counter of Monitor.wg
    stopChan,        \* Monitor.stopChan: "open" / "closed"
    metricsChan,     \* Monitor.metricsChan: number of metrics buffered in the channel
    cmpc,            \* position of collectMetrics: "none" / "select" / "send" / "check" / "exited"
    grpc,            \* position of generateReports: "none" / "select" / "report" / "exited"
    mstop            \* position of the caller of Stop: "idle" / "waiting" / "returned"

poolVars == <<maxWorkers, activeWorkers, tasks, isPaused, shutdownFlag, workerExit,
              isRepeating, crashed, task, nSubmitted, startCalls, wpc, wtask, wfn,
              orphans, execCount, pausedSubs,
              mem, tasksArr, hpc, loc, spc, statpc, statloc, lateSubs>>
taskVars == <<td, tpc, gpc, cpc, attempts, startRet, startWins, startErrs>>
antsVars == <<threadIDCounter, threadIDs, antsBusy, antsSubmit, antsWpc, antsReleased,
              antsShut>>
listVars == <<taskList, lprio, apc, alocal, aidx, stopChannel, stopCloses, tickLeft,
              lstart, lctl, lstop, lwpc, lwlist, lwpos, lwretries>>
svcVars == <<logChan, logClosed, logs, lgpc, dataChan, chans, done, callpc, conspc,
             conschan, collMu, ctlpc, nInits>>
wgVars == <<wgCount, wgWaiters, wgSema, ctxDone, shutpc>>
monVars == <<monWg, stopChan, metricsChan, cmpc, grpc, mstop>>
\* the variables of the parts added around the three pools
auxVars == <<listVars, svcVars, wgVars, monVars>>
\* what the list-based pool leaves alone besides the three other parts
listIdle == <<svcVars, wgVars, monVars>>
\* what the logger and the collector leave alone: everything of the other parts
\* but the flag of a panic
svcIdle == <<maxWorkers, activeWorkers, tasks, isPaused, shutdownFlag, workerExit,
             isRepeating, task, nSubmitted, startCalls, wpc, wtask, wfn, orphans,
             execCount, pausedSubs, mem, tasksArr, hpc, loc, spc, statpc, statloc,
             lateSubs, taskVars, antsVars, listVars, wgVars, monVars>>
\* what the WaitGroup-based pool leaves alone: the fields its struct does not have
\* and the other parts
wgIdle == <<activeWorkers, isPaused, shutdownFlag, workerExit, isRepeating, startCalls,
            wfn, orphans, pausedSubs, spc, statpc, statloc, lateSubs,
            taskVars, antsVars, listVars, svcVars, monVars>>
\* what the monitor leaves alone
monIdle == <<poolVars, taskVars, antsVars, listVars, svcVars, wgVars>>
vars == <<maxWorkers, activeWorkers, tasks, isPaused, shutdownFlag, workerExit,
          isRepeating, crashed, task, nSubmitted, startCalls, wpc, wtask, wfn,
          orphans, execCount, pausedSubs,
          mem, tasksArr, hpc, loc, spc, statpc, statloc, lateSubs,
          td, tpc, gpc, cpc, attempts, startRet, startWins, startErrs,
          threadIDCounter, threadIDs, antsBusy, antsSubmit, antsWpc, antsReleased, antsShut,
          taskList, lprio, apc, alocal, aidx, stopChannel, stopCloses, tickLeft,
          lstart, lctl, lstop, lwpc, lwlist, lwpos, lwretries,
          logChan, logClosed, logs, lgpc, dataChan, chans, done, callpc, conspc,
          conschan, collMu, ctlpc, nInits,
          wgCount, wgWaiters, wgSema, ctxDone, shutpc,
          monWg, stopChan, metricsChan, cmpc, grpc, mstop>>

\* ======================================================================
\* TaskQueue and container/heap
\* ======================================================================

\* The queue holds task ids (the *Task pointers); tk is the table of the Task
\* structs they point to.  Indices are 0-based as in the source.

\* TaskQueue.Less(i, j): higher priority first
Less(tk, q, i, j) == tk[q[i + 1]].priority > tk[q[j + 1]].priority

\* TaskQueue.Swap(i, j)
Swap(q, i, j) == [q EXCEPT ![i + 1] = q[j + 1], ![j + 1] = q[i + 1]]

\* ======================================================================
\* The slice p.tasks in memory (heap pool, src/unnamed/part_010)
\* ======================================================================

\* p.tasks is a slice header (array, len, cap) over a backing array.  The pool
\* takes no lock around it, so every goroutine step below reads or writes the
\* header or one array through the header it reads at that moment, or through a
\* header it read earlier and kept in a local (loc).  tasks is what the header
\* shows: the first len elements of the array tasksArr; cap is the array's length.

\* a header held in a local; a = 0 when none is held
NoHdr == [a |-> 0, n |-> 0]

\* the header stored in p.tasks now
Hdr == [a |-> tasksArr, n |-> Len(tasks)]

\* the locals of a goroutine inside rePushTasks, heap.Push or heap.Pop:
\*   r, k  the header copied by "range p.tasks" and the index of the next element
\*   x     the range variable task / the item of TaskQueue.Pop
\*   h     the header read by append in TaskQueue.Push, or old in TaskQueue.Pop
\*   n     n of heap.Pop
\*   i, j  the indices of up and down
NoLoc == [h |-> NoHdr, r |-> NoHdr, k |-> 0, x |-> 0, n |-> 0, i |-> 0, j |-> 0]

\* goroutines that run heap.Push: the workers, and the goroutine that calls the
\* pool's methods (Start, Submit, Pause, Resume, Shutdown, AdjustWorkers,
\* GetTaskStatus) one after the other, as main and the tests do
Client == MaxProcs + 1
\* goroutines that call Submit of the WaitGroup-based pool, each one call after the other
Submitters == (MaxProcs + 1)..(MaxProcs + MaxSubmitters)
Pushers == 1..(MaxProcs + MaxSubmitters)

\* append: the capacity of the array allocated when len = cap (0, 1, 2, 4, 8)
GrowCap(c) == IF c = 0 THEN 1 ELSE 2 * c

\* the arrays some header refers to
Refs(ta, l, sl) ==
    {ta} \cup {l[g].h.a : g \in Pushers} \cup {l[g].r.a : g \in Pushers} \cup {sl.h.a}

\* the memory after a step: an array that no header refers to any more is garbage
Collect(m) ==
    [a \in 1..MaxArrays |-> IF a \in Refs(tasksArr', loc', statloc') THEN m[a] ELSE <<>>]

\* the slots free for a new array, and the one an allocation takes
FreeArrs == {a \in 1..MaxArrays : a \notin Refs(tasksArr, loc, statloc)}
FreeArr == CHOOSE a \in FreeArrs : \A b \in FreeArrs : a <= b

\* append(h, x) with the header h read earlier: in place while cap allows, else
\* into a new array that gets a copy of the first len elements
AppendGrows(m, h) == h.n >= Len(m[h.a])
AppendArr(m, h) == IF AppendGrows(m, h) THEN FreeArr ELSE h.a
AppendMem(m, h, x) ==
    IF AppendGrows(m, h)
    THEN [m EXCEPT ![FreeArr] =
             [s \in 1..GrowCap(Len(m[h.a])) |->
                 IF s <= h.n THEN m[h.a][s] ELSE IF s = h.n + 1 THEN x ELSE 0]]
    ELSE [m EXCEPT ![h.a][h.n + 1] = x]

\* Go's integer division by 2 (truncated towards zero)
GoDiv2(a) == IF a >= 0 THEN a \div 2 ELSE -((-a) \div 2)

\* container/heap up: i := (j - 1) / 2 // parent
Parent(j) == GoDiv2(j - 1)

\* an index expression tq[i] is in range
InRange(i) == i >= 0 /\ i < Len(tasks)

\* container/heap down, from "j1 := 2*i + 1" to the next call of Less: where the
\* loop goes for the local values i and n
DownEntry(i, n) ==
    IF 2 * i + 1 >= n THEN "popHdr"
    ELSE IF 2 * i + 2 < n THEN "downChild" ELSE "downLess"

\* ======================================================================
\* Pool
\* ======================================================================

Spawned == {w \in Procs : wpc[w] # "none"}

\* the next k goroutine slots
NextProcs(k) == {w \in Procs : w > Cardinality(Spawned) /\ w <= Cardinality(Spawned) + k}

RECURSIVE SumOrphans(_)
SumOrphans(S) == IF S = {} THEN 0
                 ELSE LET t == CHOOSE x \in S : TRUE
                      IN  orphans[t].running + SumOrphans(S \ {t})

\* number of task functions executing right now
RunningCount == Cardinality({w \in Procs : wfn[w] = "running"}) + SumOrphans(TaskIds)

\* no goroutine of the task has been abandoned
NoOrphans == [spawned |-> 0, running |-> 0]

NoTask == [priority |-> 0, retries |-> 0, maxRetries |-> 0, timeout |-> 0]

\* no GetTaskStatus call is under way
NoScan == [id |-> 0, known |-> FALSE, h |-> NoHdr, k |-> 0]

\* the calling goroutine is between two calls
ClientIdle == hpc[Client] = "none" /\ statpc = "idle"

\* NewPool(n): builds the pool and calls pool.Start(); it has no error result, and
\* n = 0 gives a pool without workers
InitPool ==
    /\ maxWorkers \in 0..MaxN
    /\ activeWorkers = 0
    /\ tasks = <<>>
    /\ isPaused = 0
    /\ shutdownFlag = 0
    /\ workerExit = "open"
    /\ isRepeating = FALSE
    /\ crashed = FALSE
    /\ task = [t \in TaskIds |-> NoTask]
    /\ nSubmitted = 0
    /\ startCalls = 0
    /\ wpc = [w \in Procs |-> IF w <= maxWorkers THEN "top" ELSE "none"]
    /\ wtask = [w \in Procs |-> 0]
    /\ wfn = [w \in Procs |-> "none"]
    /\ orphans = [t \in TaskIds |-> NoOrphans]
    /\ execCount = [t \in TaskIds |-> 0]
    /\ pausedSubs = {}
    /\ mem = [a \in 1..MaxArrays |-> <<>>]
    /\ tasksArr = 1
    /\ hpc = [g \in Pushers |-> "none"]
    /\ loc = [g \in Pushers |-> NoLoc]
    /\ spc = [t \in TaskIds |-> "idle"]
    /\ statpc = "idle"
    /\ statloc = NoScan
    /\ lateSubs = {}
    \* no TaskDetail is in use
    /\ td = <<>>
    /\ tpc = <<>>
    /\ gpc = <<>>
    /\ cpc = <<>>
    /\ attempts = <<>>
    /\ startRet = <<>>
    /\ startWins = <<>>
    /\ startErrs = <<>>
    \* no ants-based pool is in use
    /\ threadIDCounter = 0
    /\ threadIDs = <<>>
    /\ antsBusy = 0
    /\ antsSubmit = "idle"
    /\ antsWpc = <<>>
    /\ antsReleased = FALSE
    /\ antsShut = "idle"
    \* no list-based pool is in use
    /\ taskList = <<>>
    /\ lprio = <<>>
    /\ apc = <<>>
    /\ alocal = <<>>
    /\ aidx = <<>>
    /\ stopChannel = "open"
    /\ stopCloses = 0
    /\ tickLeft = FALSE
    /\ lstart = "idle"
    /\ lctl = "none"
    /\ lstop = "idle"
    /\ lwpc = <<>>
    /\ lwlist = <<>>
    /\ lwpos = <<>>
    /\ lwretries = <<>>
    \* no logger and no collector is in use
    /\ logChan = 0
    /\ logs = 0
    /\ lgpc = "recv"
    /\ dataChan = 0
    /\ callpc = <<>>
    /\ conspc = <<>>
    /\ collMu = 0
    /\ logClosed = FALSE
    /\ chans = <<>>
    /\ done = "open"
    /\ conschan = <<>>
    /\ ctlpc = "idle"
    /\ nInits = 0
    \* no WaitGroup-based pool is in use
    /\ wgCount = 0
    /\ wgWaiters = 0
    /\ wgSema = 0
    /\ ctxDone = FALSE
    /\ shutpc = "idle"
    \* no monitor is in use
    /\ monWg = 0
    /\ stopChan = "open"
    /\ metricsChan = 0
    /\ cmpc = "none"
    /\ grpc = "none"
    /\ mstop = "idle"

\* Pool.Start: for i := 0; i < maxWorkers; i++ { go p.worker() }
Start ==
    /\ ~crashed
    /\ ClientIdle
    /\ startCalls < MaxStarts
    /\ maxWorkers >= 0
    /\ Cardinality(Spawned) + maxWorkers <= MaxProcs
    /\ startCalls' = startCalls + 1
    /\ wpc' = [w \in Procs |-> IF w \in NextProcs(maxWorkers) THEN "top" ELSE wpc[w]]
    /\ UNCHANGED <<maxWorkers, activeWorkers, tasks, isPaused, shutdownFlag,
                    workerExit, isRepeating, crashed, task, nSubmitted,
                    wtask, wfn, orphans, execCount, pausedSubs, mem,
                    tasksArr, hpc, loc, spc, statpc, statloc, lateSubs>>
    /\ UNCHANGED taskVars
    /\ UNCHANGED auxVars
    /\ UNCHANGED antsVars

\* Pool.Submit(fn, priority, retries, taskID, timeout, isRepeating), up to the call
\* of heap.Push: the Task is built, and "if isRepeating { p.isRepeating = true }"
Submit(priority, retries, timeout, rep) ==
    /\ ~crashed
    /\ ClientIdle
    /\ nSubmitted < MaxTasks
    /\ LET id == nSubmitted + 1 IN
       /\ task' = [task EXCEPT ![id] = [priority |-> priority, retries |-> retries,
                                        maxRetries |-> PoolMaxRetries,
                                        timeout |-> timeout]]
       /\ pausedSubs' = IF isPaused = 1 THEN pausedSubs \cup {id} ELSE pausedSubs
       /\ lateSubs' = IF shutdownFlag = 1 THEN lateSubs \cup {id} ELSE lateSubs
       /\ spc' = [spc EXCEPT ![id] = "push"]
       /\ hpc' = [hpc EXCEPT ![Client] = "read"]
       /\ loc' = [loc EXCEPT ![Client].x = id]
    /\ isRepeating' = (IF rep THEN TRUE ELSE isRepeating)
    /\ nSubmitted' = nSubmitted + 1
    /\ UNCHANGED <<maxWorkers, activeWorkers, tasks, isPaused, shutdownFlag,
                    workerExit, crashed, startCalls, wpc, wtask, wfn,
                    orphans, execCount, mem, tasksArr, statpc, statloc>>
    /\ UNCHANGED taskVars
    /\ UNCHANGED auxVars
    /\ UNCHANGED antsVars

\* Pool.Submit: heap.Push has returned; atomic.AddInt32(&p.activeWorkers, 1), return
SubmitAdd(id) ==
    /\ ~crashed
    /\ spc[id] = "push"
    /\ hpc[Client] = "next"
    /\ activeWorkers' = activeWorkers + 1
    /\ spc' = [spc EXCEPT ![id] = "done"]
    /\ hpc' = [hpc EXCEPT ![Client] = "none"]
    /\ UNCHANGED <<maxWorkers, tasks, isPaused, shutdownFlag, workerExit,
                    isRepeating, crashed, task, nSubmitted, startCalls, wpc,
                    wtask, wfn, orphans, execCount, pausedSubs, mem,
                    tasksArr, loc, statpc, statloc, lateSubs>>
    /\ UNCHANGED taskVars
    /\ UNCHANGED auxVars
    /\ UNCHANGED antsVars

\* ---- heap.Push(&p.tasks, x), run by Submit and by rePushTasks ----------

\* TaskQueue.Push, "*tq = append(*tq, x.(*Task))": the header is read
PushRead(g) ==
    /\ ~crashed
    /\ hpc[g] = "read"
    /\ Len(tasks) < MaxQueue
    /\ loc' = [loc EXCEPT ![g].h = Hdr]
    /\ hpc' = [hpc EXCEPT ![g] = "store"]
    /\ UNCHANGED <<maxWorkers, activeWorkers, tasks, isPaused, shutdownFlag,
                    workerExit, isRepeating, crashed, task, nSubmitted,
                    startCalls, wpc, wtask, wfn, orphans, execCount,
                    pausedSubs, tasksArr, spc, statpc, statloc, lateSubs>>
    /\ UNCHANGED taskVars
    /\ UNCHANGED auxVars
    /\ UNCHANGED antsVars
    /\ mem' = Collect(mem)

\* TaskQueue.Push: append writes x behind the elements of the header it read (into
\* a new array when that header's array is full) and the new header is stored
PushStore(g) ==
    /\ ~crashed
    /\ hpc[g] = "store"
    /\ AppendGrows(mem, loc[g].h) => FreeArrs # {}
    /\ tasksArr' = AppendArr(mem, loc[g].h)
    /\ tasks' = SubSeq(AppendMem(mem, loc[g].h, loc[g].x)[tasksArr'], 1, loc[g].h.n + 1)
    /\ loc' = [loc EXCEPT ![g].h = NoHdr, ![g].x = 0]
    /\ hpc' = [hpc EXCEPT ![g] = "upLen"]
    /\ UNCHANGED <<maxWorkers, activeWorkers, isPaused, shutdownFlag,
                    workerExit, isRepeating, crashed, task, nSubmitted,
                    startCalls, wpc, wtask, wfn, orphans, execCount,
                    pausedSubs, spc, statpc, statloc, lateSubs>>
    /\ UNCHANGED taskVars
    /\ UNCHANGED auxVars
    /\ UNCHANGED antsVars
    /\ mem' = Collect(AppendMem(mem, loc[g].h, loc[g].x))

\* heap.Push: "up(h, h.Len()-1)": Len is read; up returns at once when the element
\* is its own parent
PushUpLen(g) ==
    /\ ~crashed
    /\ hpc[g] = "upLen"
    /\ LET j == Len(tasks) - 1 IN
       IF Parent(j) = j
       THEN /\ hpc' = [hpc EXCEPT ![g] = "next"]
            /\ UNCHANGED loc
       ELSE /\ hpc' = [hpc EXCEPT ![g] = "upLess"]
            /\ loc' = [loc EXCEPT ![g].j = j]
    /\ UNCHANGED <<maxWorkers, activeWorkers, tasks, isPaused, shutdownFlag,
                    workerExit, isRepeating, crashed, task, nSubmitted,
                    startCalls, wpc, wtask, wfn, orphans, execCount,
                    pausedSubs, mem, tasksArr, spc, statpc, statloc,
                    lateSubs>>
    /\ UNCHANGED taskVars
    /\ UNCHANGED auxVars
    /\ UNCHANGED antsVars

\* up: "if i == j || !h.Less(j, i) { break }"; an index beyond the length the queue
\* has by now is a runtime panic
PushUpLess(g) ==
    /\ ~crashed
    /\ hpc[g] = "upLess"
    /\ LET j == loc[g].j
           i == Parent(j)
       IN  IF ~InRange(j) \/ ~InRange(i)
           THEN /\ crashed' = TRUE
                /\ UNCHANGED <<hpc, loc>>
           ELSE /\ UNCHANGED crashed
                /\ IF Less(task, tasks, j, i)
                   THEN /\ hpc' = [hpc EXCEPT ![g] = "upSwap"]
                        /\ UNCHANGED loc
                   ELSE /\ hpc' = [hpc EXCEPT ![g] = "next"]
                        /\ loc' = [loc EXCEPT ![g].j = 0]
    /\ UNCHANGED <<maxWorkers, activeWorkers, tasks, isPaused, shutdownFlag,
                    workerExit, isRepeating, task, nSubmitted, startCalls,
                    wpc, wtask, wfn, orphans, execCount, pausedSubs, mem,
                    tasksArr, spc, statpc, statloc, lateSubs>>
    /\ UNCHANGED taskVars
    /\ UNCHANGED auxVars
    /\ UNCHANGED antsVars

\* up: "h.Swap(i, j); j = i", and the test "i == j" of the next turn
PushUpSwap(g) ==
    /\ ~crashed
    /\ hpc[g] = "upSwap"
    /\ LET j == loc[g].j
           i == Parent(j)
       IN  IF ~InRange(j) \/ ~InRange(i)
           THEN /\ crashed' = TRUE
                /\ UNCHANGED <<hpc, loc, tasks, mem>>
           ELSE /\ UNCHANGED crashed
                /\ tasks' = Swap(tasks, i, j)
                /\ mem' = [mem EXCEPT ![tasksArr] = Swap(@, i, j)]
                /\ IF Parent(i) = i
                   THEN /\ hpc' = [hpc EXCEPT ![g] = "next"]
                        /\ loc' = [loc EXCEPT ![g].j = 0]
                   ELSE /\ hpc' = [hpc EXCEPT ![g] = "upLess"]
                        /\ loc' = [loc EXCEPT ![g].j = i]
    /\ UNCHANGED <<maxWorkers, activeWorkers, isPaused, shutdownFlag,
                    workerExit, isRepeating, task, nSubmitted, startCalls,
                    wpc, wtask, wfn, orphans, execCount, pausedSubs,
                    tasksArr, spc, statpc, statloc, lateSubs>>
    /\ UNCHANGED taskVars
    /\ UNCHANGED auxVars
    /\ UNCHANGED antsVars

\* Pool.Pause
Pause ==
    /\ ~crashed
    /\ ClientIdle
    /\ isPaused' = 1
    /\ pausedSubs' = (IF isPaused = 1 THEN pausedSubs ELSE {})
    /\ UNCHANGED <<maxWorkers, activeWorkers, tasks, shutdownFlag,
                    workerExit, isRepeating, crashed, task, nSubmitted,
                    startCalls, wpc, wtask, wfn, orphans, execCount, mem,
                    tasksArr, hpc, loc, spc, statpc, statloc, lateSubs>>
    /\ UNCHANGED taskVars
    /\ UNCHANGED auxVars
    /\ UNCHANGED antsVars

\* Pool.Resume
Resume ==
    /\ ~crashed
    /\ ClientIdle
    /\ isPaused' = 0
    /\ pausedSubs' = {}
    /\ UNCHANGED <<maxWorkers, activeWorkers, tasks, shutdownFlag,
                    workerExit, isRepeating, crashed, task, nSubmitted,
                    startCalls, wpc, wtask, wfn, orphans, execCount, mem,
                    tasksArr, hpc, loc, spc, statpc, statloc, lateSubs>>
    /\ UNCHANGED taskVars
    /\ UNCHANGED auxVars
    /\ UNCHANGED antsVars

\* Pool.Shutdown: shutdownFlag = 1; p.cancel(); close(p.workerExit).
\* Closing the channel a second time is a runtime panic.
Shutdown ==
    /\ ~crashed
    /\ ClientIdle
    /\ shutdownFlag' = 1
    /\ workerExit' = "closed"
    /\ crashed' = (workerExit = "closed")
    /\ UNCHANGED <<maxWorkers, activeWorkers, tasks, isPaused, isRepeating,
                    task, nSubmitted, startCalls, wpc, wtask, wfn, orphans,
                    execCount, pausedSubs, mem, tasksArr, hpc, loc, spc,
                    statpc, statloc, lateSubs>>
    /\ UNCHANGED taskVars
    /\ UNCHANGED auxVars
    /\ UNCHANGED antsVars

\* Pool.AdjustWorkers(newWorkerCount)
AdjustWorkers(n) ==
    /\ ~crashed
    /\ ClientIdle
    /\ IF activeWorkers < n
       THEN /\ Cardinality(Spawned) + (n - activeWorkers) <= MaxProcs
            /\ wpc' = [w \in Procs |->
                         IF w \in NextProcs(n - activeWorkers) THEN "top" ELSE wpc[w]]
            /\ UNCHANGED maxWorkers
       ELSE /\ maxWorkers' = n
            /\ UNCHANGED wpc
    /\ UNCHANGED <<activeWorkers, tasks, isPaused, shutdownFlag, workerExit,
                    isRepeating, crashed, task, nSubmitted, startCalls,
                    wtask, wfn, orphans, execCount, pausedSubs, mem,
                    tasksArr, hpc, loc, spc, statpc, statloc, lateSubs>>
    /\ UNCHANGED taskVars
    /\ UNCHANGED auxVars
    /\ UNCHANGED antsVars

\* ---- Pool.worker, one action per access to shared state ---------------

\* select on workerExit, then the shutdownFlag test
WorkerTop(w) ==
    /\ ~crashed
    /\ wpc[w] = "top"
    /\ wpc' = [wpc EXCEPT ![w] =
                 IF workerExit = "closed" \/ shutdownFlag = 1 THEN "exited" ELSE "chkPause"]
    /\ UNCHANGED <<maxWorkers, activeWorkers, tasks, isPaused, shutdownFlag,
                    workerExit, isRepeating, crashed, task, nSubmitted,
                    startCalls, wtask, wfn, orphans, execCount, pausedSubs,
                    mem, tasksArr, hpc, loc, spc, statpc, statloc, lateSubs>>
    /\ UNCHANGED taskVars
    /\ UNCHANGED auxVars
    /\ UNCHANGED antsVars

\* if isPaused == 1 { sleep; continue }
WorkerChkPause(w) ==
    /\ ~crashed
    /\ wpc[w] = "chkPause"
    /\ wpc' = [wpc EXCEPT ![w] = IF isPaused = 1 THEN "top" ELSE "chkRepeat"]
    /\ UNCHANGED <<maxWorkers, activeWorkers, tasks, isPaused, shutdownFlag,
                    workerExit, isRepeating, crashed, task, nSubmitted,
                    startCalls, wtask, wfn, orphans, execCount, pausedSubs,
                    mem, tasksArr, hpc, loc, spc, statpc, statloc, lateSubs>>
    /\ UNCHANGED taskVars
    /\ UNCHANGED auxVars
    /\ UNCHANGED antsVars

\* "if len(p.tasks) == 0 && p.isRepeating": the left operand
WorkerChkRepeat(w) ==
    /\ ~crashed
    /\ wpc[w] = "chkRepeat"
    /\ wpc' = [wpc EXCEPT ![w] = IF Len(tasks) = 0 THEN "chkRepeating" ELSE "chkLen"]
    /\ UNCHANGED <<maxWorkers, activeWorkers, tasks, isPaused, shutdownFlag,
                    workerExit, isRepeating, crashed, task, nSubmitted,
                    startCalls, wtask, wfn, orphans, execCount, pausedSubs,
                    mem, tasksArr, hpc, loc, spc, statpc, statloc, lateSubs>>
    /\ UNCHANGED taskVars
    /\ UNCHANGED auxVars
    /\ UNCHANGED antsVars

\* "if len(p.tasks) == 0 && p.isRepeating": the right operand, read when the left
\* one was true
WorkerChkRepeating(w) ==
    /\ ~crashed
    /\ wpc[w] = "chkRepeating"
    /\ wpc' = [wpc EXCEPT ![w] = IF isRepeating THEN "rePush" ELSE "chkLen"]
    /\ UNCHANGED <<maxWorkers, activeWorkers, tasks, isPaused, shutdownFlag,
                    workerExit, isRepeating, crashed, task, nSubmitted,
                    startCalls, wtask, wfn, orphans, execCount, pausedSubs,
                    mem, tasksArr, hpc, loc, spc, statpc, statloc, lateSubs>>
    /\ UNCHANGED taskVars
    /\ UNCHANGED auxVars
    /\ UNCHANGED antsVars

\* rePushTasks: "for _, task := range p.tasks": the header is copied once
WorkerRePush(w) ==
    /\ ~crashed
    /\ wpc[w] = "rePush"
    /\ hpc[w] = "none"
    /\ loc' = [loc EXCEPT ![w].r = Hdr, ![w].k = 0]
    /\ hpc' = [hpc EXCEPT ![w] = "next"]
    /\ UNCHANGED <<maxWorkers, activeWorkers, tasks, isPaused, shutdownFlag,
                    workerExit, isRepeating, crashed, task, nSubmitted,
                    startCalls, wpc, wtask, wfn, orphans, execCount,
                    pausedSubs, tasksArr, spc, statpc, statloc, lateSubs>>
    /\ UNCHANGED taskVars
    /\ UNCHANGED auxVars
    /\ UNCHANGED antsVars
    /\ mem' = Collect(mem)

\* rePushTasks: the next turn of the loop reads element k of the array of the
\* copied header and calls heap.Push; after the last turn rePushTasks returns and
\* the worker sleeps and starts over
WorkerRePushNext(w) ==
    /\ ~crashed
    /\ wpc[w] = "rePush"
    /\ hpc[w] = "next"
    /\ IF loc[w].k >= loc[w].r.n
       THEN /\ wpc' = [wpc EXCEPT ![w] = "top"]
            /\ hpc' = [hpc EXCEPT ![w] = "none"]
            /\ loc' = [loc EXCEPT ![w] = NoLoc]
       ELSE /\ hpc' = [hpc EXCEPT ![w] = "read"]
            /\ loc' = [loc EXCEPT ![w].x = mem[loc[w].r.a][loc[w].k + 1],
                                  ![w].k = loc[w].k + 1]
            /\ UNCHANGED wpc
    /\ UNCHANGED <<maxWorkers, activeWorkers, tasks, isPaused, shutdownFlag,
                    workerExit, isRepeating, crashed, task, nSubmitted,
                    startCalls, wtask, wfn, orphans, execCount, pausedSubs,
                    tasksArr, spc, statpc, statloc, lateSubs>>
    /\ UNCHANGED taskVars
    /\ UNCHANGED auxVars
    /\ UNCHANGED antsVars
    /\ mem' = Collect(mem)

\* if len(p.tasks) > 0 { ... } else { sleep }
WorkerChkLen(w) ==
    /\ ~crashed
    /\ wpc[w] = "chkLen"
    /\ wpc' = [wpc EXCEPT ![w] = IF Len(tasks) > 0 THEN "popLen" ELSE "top"]
    /\ UNCHANGED <<maxWorkers, activeWorkers, tasks, isPaused, shutdownFlag,
                    workerExit, isRepeating, crashed, task, nSubmitted,
                    startCalls, wtask, wfn, orphans, execCount, pausedSubs,
                    mem, tasksArr, hpc, loc, spc, statpc, statloc, lateSubs>>
    /\ UNCHANGED taskVars
    /\ UNCHANGED auxVars
    /\ UNCHANGED antsVars

\* heap.Pop: "n := h.Len() - 1"
WorkerPopLen(w) ==
    /\ ~crashed
    /\ wpc[w] = "popLen"
    /\ loc' = [loc EXCEPT ![w].n = Len(tasks) - 1]
    /\ wpc' = [wpc EXCEPT ![w] = "popSwap"]
    /\ UNCHANGED <<maxWorkers, activeWorkers, tasks, isPaused, shutdownFlag,
                    workerExit, isRepeating, crashed, task, nSubmitted,
                    startCalls, wtask, wfn, orphans, execCount, pausedSubs,
                    mem, tasksArr, hpc, spc, statpc, statloc, lateSubs>>
    /\ UNCHANGED taskVars
    /\ UNCHANGED auxVars
    /\ UNCHANGED antsVars

\* heap.Pop: "h.Swap(0, n)", then down(h, 0, n) up to its first call of Less; n is
\* the one computed before, whatever the length is by now
WorkerPopSift(w) ==
    /\ ~crashed
    /\ wpc[w] = "popSwap"
    /\ LET n == loc[w].n IN
       IF ~InRange(0) \/ ~InRange(n)
       THEN /\ crashed' = TRUE
            /\ UNCHANGED <<wpc, loc, tasks, mem>>
       ELSE /\ UNCHANGED crashed
            /\ tasks' = Swap(tasks, 0, n)
            /\ mem' = [mem EXCEPT ![tasksArr] = Swap(@, 0, n)]
            /\ wpc' = [wpc EXCEPT ![w] = DownEntry(0, n)]
            /\ loc' = [loc EXCEPT ![w].i = 0,
                                  ![w].j = IF DownEntry(0, n) = "downLess" THEN 1 ELSE 0]
    /\ UNCHANGED <<maxWorkers, activeWorkers, isPaused, shutdownFlag,
                    workerExit, isRepeating, task, nSubmitted, startCalls,
                    wtask, wfn, orphans, execCount, pausedSubs, tasksArr,
                    hpc, spc, statpc, statloc, lateSubs>>
    /\ UNCHANGED taskVars
    /\ UNCHANGED auxVars
    /\ UNCHANGED antsVars

\* down: "if j2 := j1 + 1; j2 < n && h.Less(j2, j1) { j = j2 }"
WorkerDownChild(w) ==
    /\ ~crashed
    /\ wpc[w] = "downChild"
    /\ LET j1 == 2 * loc[w].i + 1
           j2 == j1 + 1
       IN  IF ~InRange(j2) \/ ~InRange(j1)
           THEN /\ crashed' = TRUE
                /\ UNCHANGED <<wpc, loc>>
           ELSE /\ UNCHANGED crashed
                /\ loc' = [loc EXCEPT ![w].j = IF Less(task, tasks, j2, j1) THEN j2 ELSE j1]
                /\ wpc' = [wpc EXCEPT ![w] = "downLess"]
    /\ UNCHANGED <<maxWorkers, activeWorkers, tasks, isPaused, shutdownFlag,
                    workerExit, isRepeating, task, nSubmitted, startCalls,
                    wtask, wfn, orphans, execCount, pausedSubs, mem,
                    tasksArr, hpc, spc, statpc, statloc, lateSubs>>
    /\ UNCHANGED taskVars
    /\ UNCHANGED auxVars
    /\ UNCHANGED antsVars

\* down: "if !h.Less(j, i) { break }"
WorkerDownLess(w) ==
    /\ ~crashed
    /\ wpc[w] = "downLess"
    /\ LET i == loc[w].i
           j == loc[w].j
       IN  IF ~InRange(j) \/ ~InRange(i)
           THEN /\ crashed' = TRUE
                /\ UNCHANGED <<wpc, loc>>
           ELSE /\ UNCHANGED crashed
                /\ IF Less(task, tasks, j, i)
                   THEN /\ wpc' = [wpc EXCEPT ![w] = "downSwap"]
                        /\ UNCHANGED loc
                   ELSE /\ wpc' = [wpc EXCEPT ![w] = "popHdr"]
                        /\ loc' = [loc EXCEPT ![w].i = 0, ![w].j = 0, ![w].n = 0]
    /\ UNCHANGED <<maxWorkers, activeWorkers, tasks, isPaused, shutdownFlag,
                    workerExit, isRepeating, task, nSubmitted, startCalls,
                    wtask, wfn, orphans, execCount, pausedSubs, mem,
                    tasksArr, hpc, spc, statpc, statloc, lateSubs>>
    /\ UNCHANGED taskVars
    /\ UNCHANGED auxVars
    /\ UNCHANGED antsVars

\* down: "h.Swap(i, j); i = j", then the next turn up to its first call of Less
WorkerDownSwap(w) ==
    /\ ~crashed
    /\ wpc[w] = "downSwap"
    /\ LET i == loc[w].i
           j == loc[w].j
           n == loc[w].n
       IN  IF ~InRange(j) \/ ~InRange(i)
           THEN /\ crashed' = TRUE
                /\ UNCHANGED <<wpc, loc, tasks, mem>>
           ELSE /\ UNCHANGED crashed
                /\ tasks' = Swap(tasks, i, j)
                /\ mem' = [mem EXCEPT ![tasksArr] = Swap(@, i, j)]
                /\ wpc' = [wpc EXCEPT ![w] = DownEntry(j, n)]
                /\ loc' = [loc EXCEPT
                             ![w].i = IF DownEntry(j, n) = "popHdr" THEN 0 ELSE j,
                             ![w].j = IF DownEntry(j, n) = "downLess" THEN 2 * j + 1 ELSE 0,
                             ![w].n = IF DownEntry(j, n) = "popHdr" THEN 0 ELSE n]
    /\ UNCHANGED <<maxWorkers, activeWorkers, isPaused, shutdownFlag,
                    workerExit, isRepeating, task, nSubmitted, startCalls,
                    wtask, wfn, orphans, execCount, pausedSubs, tasksArr,
                    hpc, spc, statpc, statloc, lateSubs>>
    /\ UNCHANGED taskVars
    /\ UNCHANGED auxVars
    /\ UNCHANGED antsVars

\* TaskQueue.Pop: "old := *tq; n := len(old)"
WorkerPopHdr(w) ==
    /\ ~crashed
    /\ wpc[w] = "popHdr"
    /\ loc' = [loc EXCEPT ![w].h = Hdr, ![w].i = 0, ![w].j = 0, ![w].n = 0]
    /\ wpc' = [wpc EXCEPT ![w] = "popItem"]
    /\ UNCHANGED <<maxWorkers, activeWorkers, tasks, isPaused, shutdownFlag,
                    workerExit, isRepeating, crashed, task, nSubmitted,
                    startCalls, wtask, wfn, orphans, execCount, pausedSubs,
                    tasksArr, hpc, spc, statpc, statloc, lateSubs>>
    /\ UNCHANGED taskVars
    /\ UNCHANGED auxVars
    /\ UNCHANGED antsVars
    /\ mem' = Collect(mem)

\* TaskQueue.Pop: "item := old[n-1]"; index -1 panics when old is empty
WorkerPopItem(w) ==
    /\ ~crashed
    /\ wpc[w] = "popItem"
    /\ IF loc[w].h.n = 0
       THEN /\ crashed' = TRUE
            /\ UNCHANGED <<wpc, loc>>
       ELSE /\ UNCHANGED crashed
            /\ loc' = [loc EXCEPT ![w].x = mem[loc[w].h.a][loc[w].h.n]]
            /\ wpc' = [wpc EXCEPT ![w] = "popStore"]
    /\ UNCHANGED <<maxWorkers, activeWorkers, tasks, isPaused, shutdownFlag,
                    workerExit, isRepeating, task, nSubmitted, startCalls,
                    wtask, wfn, orphans, execCount, pausedSubs, mem,
                    tasksArr, hpc, spc, statpc, statloc, lateSubs>>
    /\ UNCHANGED taskVars
    /\ UNCHANGED auxVars
    /\ UNCHANGED antsVars

\* TaskQueue.Pop: "*tq = old[0 : n-1]; return item": the shortened header is
\* stored, and heap.Pop returns the item to the worker
WorkerPopTake(w) ==
    /\ ~crashed
    /\ wpc[w] = "popStore"
    /\ tasksArr' = loc[w].h.a
    /\ tasks' = SubSeq(mem[loc[w].h.a], 1, loc[w].h.n - 1)
    /\ wtask' = [wtask EXCEPT ![w] = loc[w].x]
    /\ loc' = [loc EXCEPT ![w] = NoLoc]
    /\ wpc' = [wpc EXCEPT ![w] = "taken"]
    /\ UNCHANGED <<maxWorkers, activeWorkers, isPaused, shutdownFlag,
                    workerExit, isRepeating, crashed, task, nSubmitted,
                    startCalls, wfn, orphans, execCount, pausedSubs, hpc,
                    spc, statpc, statloc, lateSubs>>
    /\ UNCHANGED taskVars
    /\ UNCHANGED auxVars
    /\ UNCHANGED antsVars
    /\ mem' = Collect(mem)

\* "if task.retries < task.maxRetries { p.executeTask(task)": executeTask builds
\* its context and the channel done and starts the goroutine that will call
\* task.fn, then waits in its select; else the task is dropped
WorkerExecute(w) ==
    /\ ~crashed
    /\ wpc[w] = "taken"
    /\ IF task[wtask[w]].retries < task[wtask[w]].maxRetries
       THEN /\ wfn' = [wfn EXCEPT ![w] = "spawned"]
            /\ wpc' = [wpc EXCEPT ![w] = "exec"]
       ELSE /\ wpc' = [wpc EXCEPT ![w] = "dec"]
            /\ UNCHANGED wfn
    /\ UNCHANGED <<maxWorkers, activeWorkers, tasks, isPaused, shutdownFlag,
                    workerExit, isRepeating, crashed, task, nSubmitted,
                    startCalls, wtask, orphans, execCount, pausedSubs, mem,
                    tasksArr, hpc, loc, spc, statpc, statloc, lateSubs>>
    /\ UNCHANGED taskVars
    /\ UNCHANGED auxVars
    /\ UNCHANGED antsVars

\* the goroutine started by executeTask is scheduled and calls task.fn()
FnStart(w) ==
    /\ ~crashed
    /\ wpc[w] = "exec"
    /\ wfn[w] = "spawned"
    /\ execCount[wtask[w]] < MaxExec
    /\ wfn' = [wfn EXCEPT ![w] = "running"]
    /\ execCount' = [execCount EXCEPT ![wtask[w]] = @ + 1]
    /\ UNCHANGED <<maxWorkers, activeWorkers, tasks, isPaused, shutdownFlag,
                    workerExit, isRepeating, crashed, task, nSubmitted,
                    startCalls, wpc, wtask, orphans, pausedSubs, mem,
                    tasksArr, hpc, loc, spc, statpc, statloc, lateSubs>>
    /\ UNCHANGED taskVars
    /\ UNCHANGED auxVars
    /\ UNCHANGED antsVars

\* executeTask: task.fn() returns in its goroutine, done <- struct{}{}, and the
\* worker takes case <-done
WorkerExecDone(w) ==
    /\ ~crashed
    /\ wpc[w] = "exec"
    /\ wfn[w] = "running"
    /\ wfn' = [wfn EXCEPT ![w] = "none"]
    /\ wpc' = [wpc EXCEPT ![w] = "dec"]
    /\ UNCHANGED <<maxWorkers, activeWorkers, tasks, isPaused, shutdownFlag,
                    workerExit, isRepeating, crashed, task, nSubmitted,
                    startCalls, wtask, orphans, execCount, pausedSubs, mem,
                    tasksArr, hpc, loc, spc, statpc, statloc, lateSubs>>
    /\ UNCHANGED taskVars
    /\ UNCHANGED auxVars
    /\ UNCHANGED antsVars

\* executeTask: task.fn() panics in the goroutine started for it.  Neither that
\* goroutine nor the worker has a deferred recover, so the Go runtime ends the
\* process, and every worker with it.
FnPanic(w) ==
    /\ ~crashed
    /\ wpc[w] = "exec"
    /\ wfn[w] = "running"
    /\ wfn' = [wfn EXCEPT ![w] = "panicked"]
    /\ crashed' = TRUE
    /\ UNCHANGED <<maxWorkers, activeWorkers, tasks, isPaused, shutdownFlag,
                    workerExit, isRepeating, task, nSubmitted, startCalls,
                    wpc, wtask, orphans, execCount, pausedSubs, mem,
                    tasksArr, hpc, loc, spc, statpc, statloc, lateSubs>>
    /\ UNCHANGED taskVars
    /\ UNCHANGED auxVars
    /\ UNCHANGED antsVars

\* ctx of executeTask is context.WithTimeout(p.ctx, task.timeout): Done() is closed
\* when p.ctx is cancelled, or when the deadline now + task.timeout has passed.  A
\* timeout of zero is a deadline that has passed already; a positive one passes
\* at any moment of the execution.
CtxDone(t) == workerExit = "closed" \/ task[t].timeout = 0 \/ task[t].timeout > 0

\* executeTask: case <-ctx.Done(); the goroutine started for task.fn is left
\* behind, inside task.fn or not yet there
WorkerExecTimeout(w) ==
    /\ ~crashed
    /\ wpc[w] = "exec"
    /\ wfn[w] \in {"spawned", "running"}
    /\ CtxDone(wtask[w])
    /\ orphans' = [orphans EXCEPT ![wtask[w]] =
                     IF wfn[w] = "spawned" THEN [@ EXCEPT !.spawned = @ + 1]
                                           ELSE [@ EXCEPT !.running = @ + 1]]
    /\ wfn' = [wfn EXCEPT ![w] = "none"]
    /\ wpc' = [wpc EXCEPT ![w] = "dec"]
    /\ UNCHANGED <<maxWorkers, activeWorkers, tasks, isPaused, shutdownFlag,
                    workerExit, isRepeating, crashed, task, nSubmitted,
                    startCalls, wtask, execCount, pausedSubs, mem, tasksArr,
                    hpc, loc, spc, statpc, statloc, lateSubs>>
    /\ UNCHANGED taskVars
    /\ UNCHANGED auxVars
    /\ UNCHANGED antsVars

\* an abandoned goroutine is scheduled and calls task.fn()
OrphanStart(t) ==
    /\ ~crashed
    /\ orphans[t].spawned > 0
    /\ execCount[t] < MaxExec
    /\ orphans' = [orphans EXCEPT ![t] = [spawned |-> @.spawned - 1,
                                          running |-> @.running + 1]]
    /\ execCount' = [execCount EXCEPT ![t] = @ + 1]
    /\ UNCHANGED <<maxWorkers, activeWorkers, tasks, isPaused, shutdownFlag,
                    workerExit, isRepeating, crashed, task, nSubmitted,
                    startCalls, wpc, wtask, wfn, pausedSubs, mem, tasksArr,
                    hpc, loc, spc, statpc, statloc, lateSubs>>
    /\ UNCHANGED taskVars
    /\ UNCHANGED auxVars
    /\ UNCHANGED antsVars

\* an abandoned task.fn returns; its send on done (capacity 1) does not wait
OrphanReturn(t) ==
    /\ ~crashed
    /\ orphans[t].running > 0
    /\ orphans' = [orphans EXCEPT ![t].running = @ - 1]
    /\ UNCHANGED <<maxWorkers, activeWorkers, tasks, isPaused, shutdownFlag,
                    workerExit, isRepeating, crashed, task, nSubmitted,
                    startCalls, wpc, wtask, wfn, execCount, pausedSubs, mem,
                    tasksArr, hpc, loc, spc, statpc, statloc, lateSubs>>
    /\ UNCHANGED taskVars
    /\ UNCHANGED auxVars
    /\ UNCHANGED antsVars

\* an abandoned task.fn panics: its goroutine is still the one of executeTask, with
\* no deferred recover, so the process ends
OrphanPanic(t) ==
    /\ ~crashed
    /\ orphans[t].running > 0
    /\ crashed' = TRUE
    /\ UNCHANGED <<maxWorkers, activeWorkers, tasks, isPaused, shutdownFlag,
                    workerExit, isRepeating, task, nSubmitted, startCalls,
                    wpc, wtask, wfn, orphans, execCount, pausedSubs, mem,
                    tasksArr, hpc, loc, spc, statpc, statloc, lateSubs>>
    /\ UNCHANGED taskVars
    /\ UNCHANGED auxVars
    /\ UNCHANGED antsVars

\* atomic.AddInt32(&p.activeWorkers, -1)
WorkerDec(w) ==
    /\ ~crashed
    /\ wpc[w] = "dec"
    /\ activeWorkers > -MaxDeficit
    /\ activeWorkers' = activeWorkers - 1
    /\ wtask' = [wtask EXCEPT ![w] = 0]
    /\ wpc' = [wpc EXCEPT ![w] = "top"]
    /\ UNCHANGED <<maxWorkers, tasks, isPaused, shutdownFlag, workerExit,
                    isRepeating, crashed, task, nSubmitted, startCalls, wfn,
                    orphans, execCount, pausedSubs, mem, tasksArr, hpc, loc,
                    spc, statpc, statloc, lateSubs>>
    /\ UNCHANGED taskVars
    /\ UNCHANGED auxVars
    /\ UNCHANGED antsVars

\* ---- Pool.GetTaskStatus(taskID) --------------------------------------

\* "for _, task := range p.tasks": the header is copied once; known records whether
\* a Submit call for the id had returned by then
GetTaskStatus(id) ==
    /\ ~crashed
    /\ ClientIdle
    /\ statloc' = [id |-> id, known |-> spc[id] = "done", h |-> Hdr, k |-> 0]
    /\ statpc' = "scan"
    /\ UNCHANGED <<maxWorkers, activeWorkers, tasks, isPaused, shutdownFlag,
                    workerExit, isRepeating, crashed, task, nSubmitted,
                    startCalls, wpc, wtask, wfn, orphans, execCount,
                    pausedSubs, tasksArr, hpc, loc, spc, lateSubs>>
    /\ UNCHANGED taskVars
    /\ UNCHANGED auxVars
    /\ UNCHANGED antsVars
    /\ mem' = Collect(mem)

\* the next turn of the loop reads element k of the array of the copied header:
\* "if task.ID == taskID { return task, nil }"; after the last turn "task not found"
StatusNext ==
    /\ ~crashed
    /\ statpc = "scan"
    /\ IF statloc.k >= statloc.h.n
       THEN /\ statpc' = "notFound"
            /\ statloc' = [statloc EXCEPT !.h = NoHdr, !.k = 0]
       ELSE IF mem[statloc.h.a][statloc.k + 1] = statloc.id
            THEN /\ statpc' = "found"
                 /\ statloc' = [statloc EXCEPT !.h = NoHdr, !.k = 0]
            ELSE /\ statpc' = "scan"
                 /\ statloc' = [statloc EXCEPT !.k = statloc.k + 1]
    /\ UNCHANGED <<maxWorkers, activeWorkers, tasks, isPaused, shutdownFlag,
                    workerExit, isRepeating, crashed, task, nSubmitted,
                    startCalls, wpc, wtask, wfn, orphans, execCount,
                    pausedSubs, tasksArr, hpc, loc, spc, lateSubs>>
    /\ UNCHANGED taskVars
    /\ UNCHANGED auxVars
    /\ UNCHANGED antsVars
    /\ mem' = Collect(mem)

\* the caller has its result; GetTaskStatus can be called again
StatusReturn ==
    /\ ~crashed
    /\ statpc \in {"found", "notFound"}
    /\ statpc' = "idle"
    /\ statloc' = NoScan
    /\ UNCHANGED <<maxWorkers, activeWorkers, tasks, isPaused, shutdownFlag,
                    workerExit, isRepeating, crashed, task, nSubmitted,
                    startCalls, wpc, wtask, wfn, orphans, execCount,
                    pausedSubs, mem, tasksArr, hpc, loc, spc, lateSubs>>
    /\ UNCHANGED taskVars
    /\ UNCHANGED auxVars
    /\ UNCHANGED antsVars

\* ---- the runs explored -------------------------------------------------

\* NewPool(0) or NewPool(1): at most one worker loop
InitPoolOne == InitPool /\ maxWorkers <= 1

\* a Submit call with any of the argument lists explored
SubmitAny == \E a \in SubmitArgs : Submit(a.priority, a.retries, a.timeout, a.rep)

\* a Submit call of a run that has no repeating task
SubmitPlain(priority) == ~isRepeating /\ Submit(priority, 0, 1, FALSE)

\* the Submit call of a run whose only task is a repeating one
SubmitRepeating == nSubmitted = 0 /\ Submit(1, 0, 1, TRUE)

\* a step of heap.Push in goroutine g
PushStep(g) ==
    \/ PushRead(g)
    \/ PushStore(g)
    \/ PushUpLen(g)
    \/ PushUpLess(g)
    \/ PushUpSwap(g)

\* a step of the loop of worker w whose task function returns in time; the swap
\* of down is listed apart
WorkerStep(w) ==
    \/ WorkerTop(w)
    \/ WorkerChkPause(w)
    \/ WorkerChkRepeat(w)
    \/ WorkerChkRepeating(w)
    \/ WorkerRePush(w)
    \/ WorkerRePushNext(w)
    \/ WorkerChkLen(w)
    \/ WorkerPopLen(w)
    \/ WorkerPopSift(w)
    \/ WorkerDownChild(w)
    \/ WorkerDownLess(w)
    \/ WorkerPopHdr(w)
    \/ WorkerPopItem(w)
    \/ WorkerPopTake(w)
    \/ WorkerExecute(w)
    \/ FnStart(w)
    \/ WorkerExecDone(w)
    \/ WorkerDec(w)

\* a task function panics or is given up on ctx.Done(), and what its abandoned
\* goroutine does afterwards
FnFault ==
    \/ \E w \in Procs : FnPanic(w)
    \/ \E w \in Procs : WorkerExecTimeout(w)
    \/ \E t \in TaskIds : OrphanStart(t)
    \/ \E t \in TaskIds : OrphanReturn(t)
    \/ \E t \in TaskIds : OrphanPanic(t)

\* one worker at most; the caller submits, pauses, resumes and shuts down; task
\* functions may return, panic or overrun their deadline
NextPool ==
    \/ SubmitAny
    \/ \E id \in TaskIds : SubmitAdd(id)
    \/ \E g \in Pushers : PushStep(g)
    \/ Pause
    \/ Resume
    \/ Shutdown
    \/ \E w \in Procs : WorkerStep(w)
    \/ \E w \in Procs : WorkerDownSwap(w)
    \/ FnFault

\* up to MaxProcs workers, started by NewPool and by a second call of Start; the
\* caller submits tasks that are not repeating, or one repeating task; task
\* functions return in time.  (down never swaps in these runs: a queue of three
\* is only built from one repeating task.)
NextPoolNoAdjust ==
    \/ Start
    \/ \E priority \in Priorities : SubmitPlain(priority)
    \/ SubmitRepeating
    \/ \E id \in TaskIds : SubmitAdd(id)
    \/ \E g \in Pushers : PushStep(g)
    \/ \E w \in Procs : WorkerStep(w)

\* the same with calls of AdjustWorkers
NextPoolAdjust ==
    \/ NextPoolNoAdjust
    \/ \E n \in 0..MaxN : AdjustWorkers(n)

\* one worker at most; the caller submits and asks for the status of tasks
NextPoolStatus ==
    \/ SubmitAny
    \/ \E id \in TaskIds : SubmitAdd(id)
    \/ \E g \in Pushers : PushStep(g)
    \/ \E w \in Procs : WorkerStep(w)
    \/ \E w \in Procs : WorkerDownSwap(w)
    \/ \E id \in TaskIds : GetTaskStatus(id)
    \/ StatusNext
    \/ StatusReturn

\* ======================================================================
\* TaskDetail (src/pool/task.go)
\* ======================================================================

\* Two TaskDetail values: DepTask can be a dependency of MainTask.
DepTask == "dep"
MainTask == "main"
Details == {DepTask, MainTask}
\* the AddDependency calls explored: the main task is made to depend on the other
DepPairs == {<<MainTask, DepTask>>}
\* the SetTimeout calls explored: on the main task, to zero or to a positive duration
TimeoutCalls == {<<MainTask, 0>>, <<MainTask, 1>>}

\* what the caller-supplied Execute does: always nil, always an error, or either
ExecuteKinds == {"ok", "fail", "any"}

\* NewTaskDetail, then the configuration calls made before Start
\* (AddDependency, SetTimeout, MaxRetries); Timeout 0 means none, 1 a positive duration
NewTaskDetail(execute, maxRetries, timeout, deps) ==
    [Status |-> TaskPending, Execute |-> execute, RetryCount |-> 0,
     MaxRetries |-> maxRetries, Timeout |-> timeout, Dependencies |-> deps,
     StartTime |-> 0, EndTime |-> 0, Error |-> "nil"]

InitTask ==
    /\ \E e1 \in {"ok", "fail"}, e2 \in ExecuteKinds, m \in 0..MaxRetriesBound,
          to \in {0, 1}, deps \in {{}, {DepTask}} :
          td = [t \in Details |-> IF t = DepTask
                                  THEN NewTaskDetail(e1, 0, 0, {})
                                  ELSE NewTaskDetail(e2, m, to, deps)]
    /\ tpc = [t \in Details |-> "idle"]
    /\ gpc = [t \in Details |-> "none"]
    /\ cpc = [t \in Details |-> "idle"]
    /\ attempts = [t \in Details |-> 0]
    /\ startRet = [t \in Details |-> "none"]
    /\ startWins = [t \in Details |-> 0]
    /\ startErrs = [t \in Details |-> 0]
    \* no pool is in use
    /\ maxWorkers = 0
    /\ activeWorkers = 0
    /\ tasks = <<>>
    /\ isPaused = 0
    /\ shutdownFlag = 0
    /\ workerExit = "open"
    /\ isRepeating = FALSE
    /\ crashed = FALSE
    /\ task = <<>>
    /\ nSubmitted = 0
    /\ startCalls = 0
    /\ wpc = <<>>
    /\ wtask = <<>>
    /\ wfn = <<>>
    /\ orphans = <<>>
    /\ execCount = <<>>
    /\ pausedSubs = {}
    /\ mem = <<>>
    /\ tasksArr = 0
    /\ hpc = <<>>
    /\ loc = <<>>
    /\ spc = <<>>
    /\ statpc = "idle"
    /\ statloc = NoScan
    /\ lateSubs = {}
    /\ threadIDCounter = 0
    /\ threadIDs = <<>>
    /\ antsBusy = 0
    /\ antsSubmit = "idle"
    /\ antsWpc = <<>>
    /\ antsReleased = FALSE
    /\ antsShut = "idle"
    \* no list-based pool is in use
    /\ taskList = <<>>
    /\ lprio = <<>>
    /\ apc = <<>>
    /\ alocal = <<>>
    /\ aidx = <<>>
    /\ stopChannel = "open"
    /\ stopCloses = 0
    /\ tickLeft = FALSE
    /\ lstart = "idle"
    /\ lctl = "none"
    /\ lstop = "idle"
    /\ lwpc = <<>>
    /\ lwlist = <<>>
    /\ lwpos = <<>>
    /\ lwretries = <<>>
    \* no logger and no collector is in use
    /\ logChan = 0
    /\ logs = 0
    /\ lgpc = "recv"
    /\ dataChan = 0
    /\ callpc = <<>>
    /\ conspc = <<>>
    /\ collMu = 0
    /\ logClosed = FALSE
    /\ chans = <<>>
    /\ done = "open"
    /\ conschan = <<>>
    /\ ctlpc = "idle"
    /\ nInits = 0
    \* no WaitGroup-based pool is in use
    /\ wgCount = 0
    /\ wgWaiters = 0
    /\ wgSema = 0
    /\ ctxDone = FALSE
    /\ shutpc = "idle"
    \* no monitor is in use
    /\ monWg = 0
    /\ stopChan = "open"
    /\ metricsChan = 0
    /\ cmpc = "none"
    /\ grpc = "none"
    /\ mstop = "idle"

\* checkDependencies: nil iff every dependency's Status is TaskCompleted
checkDependencies(t) == \A d \in td[t].Dependencies : td[d].Status = TaskCompleted

\* retry with the comparison weakened to >: one retry too many
RetryExhaustedLate(retryCount, maxRetries) == retryCount > maxRetries

\* retry giving up one retry early
RetryExhaustedEarly(retryCount, maxRetries) == retryCount + 1 >= maxRetries

\* retry: if RetryCount >= MaxRetries { return error }
RetryExhausted(retryCount, maxRetries) == retryCount >= maxRetries

\* the executeTask chain runs in the caller of Start ("return t.executeTask()",
\* taken when Start read Timeout <= 0), not in the goroutine of executeWithTimeout
Inline(t) == tpc[t] = "run"

\* a compare of Start that also lets a Running task through
StartAllowedLoose(status) == status \in {TaskPending, TaskRunning}

\* Start: the compare of CompareAndSwapInt32(&t.Status, TaskPending, TaskRunning)
StartAllowed(status) == status = TaskPending

\* Start, called by any goroutine: the CompareAndSwap Pending -> Running.  The call
\* that wins sets StartTime and goes on; a call that loses returns the error.
StartCAS(t) ==
    /\ startWins[t] + startErrs[t] < MaxStartCallers
    /\ IF StartAllowed(td[t].Status)
       THEN /\ td' = [td EXCEPT ![t].Status = TaskRunning, ![t].StartTime = 1]
            /\ tpc' = [tpc EXCEPT ![t] = "started"]
            /\ startWins' = [startWins EXCEPT ![t] = @ + 1]
            /\ UNCHANGED startErrs
       ELSE /\ startErrs' = [startErrs EXCEPT ![t] = @ + 1]
            /\ UNCHANGED <<td, tpc, startWins>>
    /\ UNCHANGED <<gpc, cpc, attempts, startRet>>
    /\ UNCHANGED poolVars
    /\ UNCHANGED auxVars
    /\ UNCHANGED antsVars

\* Start calls checkDependencies: the atomic load of the dependency's Status.  When
\* it is not Completed, checkDependencies goes on into logger.Log (a channel send,
\* which can wait) and returns the error; Start has not stored anything yet.
StartCheck(t) ==
    /\ tpc[t] = "started"
    /\ tpc' = [tpc EXCEPT ![t] = IF checkDependencies(t) THEN "dispatch" ELSE "depErr"]
    /\ UNCHANGED <<td, startRet>>
    /\ UNCHANGED <<gpc, cpc, attempts>>
    /\ UNCHANGED <<startWins, startErrs>>
    /\ UNCHANGED poolVars
    /\ UNCHANGED auxVars
    /\ UNCHANGED antsVars

\* Start: checkDependencies has returned the error; "atomic.StoreInt32(&t.Status,
\* TaskFailed); return err".  The store is unconditional: whatever the dependency
\* and the task itself have become since the load, the task is failed.
StartFail(t) ==
    /\ tpc[t] = "depErr"
    /\ td' = [td EXCEPT ![t].Status = TaskFailed]
    /\ tpc' = [tpc EXCEPT ![t] = "ret"]
    /\ startRet' = [startRet EXCEPT ![t] = "depUnmet"]
    /\ UNCHANGED <<gpc, cpc, attempts>>
    /\ UNCHANGED <<startWins, startErrs>>
    /\ UNCHANGED poolVars
    /\ UNCHANGED auxVars
    /\ UNCHANGED antsVars

\* Start: "if t.Timeout > 0 { return t.executeWithTimeout() }; return
\* t.executeTask()".  executeWithTimeout makes done, starts the goroutine and waits
\* in its select; executeTask invokes Execute in the caller.
StartDispatch(t) ==
    /\ tpc[t] = "dispatch"
    /\ IF td[t].Timeout > 0
       THEN /\ tpc' = [tpc EXCEPT ![t] = "select"]
            /\ gpc' = [gpc EXCEPT ![t] = "spawned"]
            /\ UNCHANGED attempts
       ELSE /\ tpc' = [tpc EXCEPT ![t] = "run"]
            /\ gpc' = [gpc EXCEPT ![t] = "exec"]
            /\ attempts' = [attempts EXCEPT ![t] = @ + 1]
    /\ UNCHANGED <<td, cpc, startRet>>
    /\ UNCHANGED <<startWins, startErrs>>
    /\ UNCHANGED poolVars
    /\ UNCHANGED auxVars
    /\ UNCHANGED antsVars

\* goroutine of executeWithTimeout: it is scheduled and calls t.executeTask(), which
\* invokes Execute
GoExecute(t) ==
    /\ gpc[t] = "spawned"
    /\ gpc' = [gpc EXCEPT ![t] = "exec"]
    /\ attempts' = [attempts EXCEPT ![t] = @ + 1]
    /\ UNCHANGED <<td, tpc, cpc, startRet>>
    /\ UNCHANGED <<startWins, startErrs>>
    /\ UNCHANGED poolVars
    /\ UNCHANGED auxVars
    /\ UNCHANGED antsVars

\* AddDependency(dep), called at any time by any goroutine
AddDependency(t, dep) ==
    /\ dep \notin td[t].Dependencies
    /\ td' = [td EXCEPT ![t].Dependencies = @ \cup {dep}]
    /\ UNCHANGED <<tpc, gpc, cpc, attempts, startRet>>
    /\ UNCHANGED <<startWins, startErrs>>
    /\ UNCHANGED poolVars
    /\ UNCHANGED auxVars
    /\ UNCHANGED antsVars

\* SetTimeout(timeout), called at any time by any goroutine
SetTimeout(t, timeout) ==
    /\ td[t].Timeout # timeout
    /\ td' = [td EXCEPT ![t].Timeout = timeout]
    /\ UNCHANGED <<tpc, gpc, cpc, attempts, startRet>>
    /\ UNCHANGED <<startWins, startErrs>>
    /\ UNCHANGED poolVars
    /\ UNCHANGED auxVars
    /\ UNCHANGED antsVars

\* the executeTask chain returns r: to Start's caller when inline, otherwise the
\* goroutine blocks on done <- r (the channel is unbuffered)
ChainReturn(t, r) ==
    IF Inline(t)
    THEN /\ gpc' = [gpc EXCEPT ![t] = "exit"]
         /\ tpc' = [tpc EXCEPT ![t] = "ret"]
         /\ startRet' = [startRet EXCEPT ![t] = r]
    ELSE /\ gpc' = [gpc EXCEPT ![t] = IF r = "nil" THEN "sendNil" ELSE "sendErr"]
         /\ UNCHANGED <<tpc, startRet>>

\* executeTask: Execute returned nil
ExecuteOk(t) ==
    /\ gpc[t] = "exec"
    /\ td[t].Execute \in {"ok", "any"}
    /\ td' = [td EXCEPT ![t].Status = TaskCompleted, ![t].EndTime = 1]
    /\ ChainReturn(t, "nil")
    /\ UNCHANGED <<cpc, attempts>>
    /\ UNCHANGED <<startWins, startErrs>>
    /\ UNCHANGED poolVars
    /\ UNCHANGED auxVars
    /\ UNCHANGED antsVars

\* executeTask: Execute returned an error; return t.retry()
ExecuteFail(t) ==
    /\ gpc[t] = "exec"
    /\ td[t].Execute \in {"fail", "any"}
    /\ td' = [td EXCEPT ![t].Status = TaskFailed, ![t].Error = "exec"]
    /\ gpc' = [gpc EXCEPT ![t] = "retry"]
    /\ UNCHANGED <<tpc, cpc, attempts, startRet>>
    /\ UNCHANGED <<startWins, startErrs>>
    /\ UNCHANGED poolVars
    /\ UNCHANGED auxVars
    /\ UNCHANGED antsVars

\* retry: the RetryCount test, the increment, and the start of time.Sleep(RetryDelay)
Retry(t) ==
    /\ gpc[t] = "retry"
    /\ IF RetryExhausted(td[t].RetryCount, td[t].MaxRetries)
       THEN /\ ChainReturn(t, "exceeded")
            /\ UNCHANGED td
       ELSE /\ td' = [td EXCEPT ![t].RetryCount = @ + 1]
            /\ gpc' = [gpc EXCEPT ![t] = "sleep"]
            /\ UNCHANGED <<tpc, startRet>>
    /\ UNCHANGED <<cpc, attempts>>
    /\ UNCHANGED <<startWins, startErrs>>
    /\ UNCHANGED poolVars
    /\ UNCHANGED auxVars
    /\ UNCHANGED antsVars

\* retry: the sleep is over, return t.executeTask(): Execute is invoked again
RetryExecute(t) ==
    /\ gpc[t] = "sleep"
    /\ gpc' = [gpc EXCEPT ![t] = "exec"]
    /\ attempts' = [attempts EXCEPT ![t] = @ + 1]
    /\ UNCHANGED <<td, tpc, cpc, startRet>>
    /\ UNCHANGED <<startWins, startErrs>>
    /\ UNCHANGED poolVars
    /\ UNCHANGED auxVars
    /\ UNCHANGED antsVars

\* executeWithTimeout: case err := <-done
SelectDone(t) ==
    /\ tpc[t] = "select"
    /\ gpc[t] \in {"sendNil", "sendErr"}
    /\ startRet' = [startRet EXCEPT ![t] = IF gpc[t] = "sendNil" THEN "nil" ELSE "exceeded"]
    /\ tpc' = [tpc EXCEPT ![t] = "ret"]
    /\ gpc' = [gpc EXCEPT ![t] = "exit"]
    /\ UNCHANGED <<td, cpc, attempts>>
    /\ UNCHANGED <<startWins, startErrs>>
    /\ UNCHANGED poolVars
    /\ UNCHANGED auxVars
    /\ UNCHANGED antsVars

\* the select waiting for the attempt only: the deadline case is taken once the
\* executeTask chain is over
DeadlineAfterAttempt(t) == tpc[t] = "select" /\ gpc[t] \in {"sendNil", "sendErr"}

\* executeWithTimeout is blocked in its select; time.After(t.Timeout) can deliver
\* whatever the goroutine running executeTask is doing
DeadlineReady(t) == tpc[t] = "select"

\* executeWithTimeout: case <-time.After(t.Timeout)
SelectTimeout(t) ==
    /\ DeadlineReady(t)
    /\ td' = [td EXCEPT ![t].Status = TaskTimeout]
    /\ startRet' = [startRet EXCEPT ![t] = "timeout"]
    /\ tpc' = [tpc EXCEPT ![t] = "ret"]
    /\ UNCHANGED <<gpc, cpc, attempts>>
    /\ UNCHANGED <<startWins, startErrs>>
    /\ UNCHANGED poolVars
    /\ UNCHANGED auxVars
    /\ UNCHANGED antsVars

\* Cancel: the first CompareAndSwap, Running -> Cancelled
CancelRunning(t) ==
    /\ cpc[t] = "idle"
    /\ IF td[t].Status = TaskRunning
       THEN /\ td' = [td EXCEPT ![t].Status = TaskCancelled]
            /\ cpc' = [cpc EXCEPT ![t] = "ok"]
       ELSE /\ cpc' = [cpc EXCEPT ![t] = "cas2"]
            /\ UNCHANGED td
    /\ UNCHANGED <<tpc, gpc, attempts, startRet>>
    /\ UNCHANGED <<startWins, startErrs>>
    /\ UNCHANGED poolVars
    /\ UNCHANGED auxVars
    /\ UNCHANGED antsVars

\* Cancel: the second CompareAndSwap, Pending -> Cancelled, else the error
CancelPending(t) ==
    /\ cpc[t] = "cas2"
    /\ IF td[t].Status = TaskPending
       THEN /\ td' = [td EXCEPT ![t].Status = TaskCancelled]
            /\ cpc' = [cpc EXCEPT ![t] = "ok"]
       ELSE /\ cpc' = [cpc EXCEPT ![t] = "err"]
            /\ UNCHANGED td
    /\ UNCHANGED <<tpc, gpc, attempts, startRet>>
    /\ UNCHANGED <<startWins, startErrs>>
    /\ UNCHANGED poolVars
    /\ UNCHANGED auxVars
    /\ UNCHANGED antsVars

\* Cancel has returned; it may be called again
CancelAgain(t) ==
    /\ cpc[t] \in {"ok", "err"}
    /\ cpc' = [cpc EXCEPT ![t] = "idle"]
    /\ UNCHANGED <<td, tpc, gpc, attempts, startRet>>
    /\ UNCHANGED <<startWins, startErrs>>
    /\ UNCHANGED poolVars
    /\ UNCHANGED auxVars
    /\ UNCHANGED antsVars

NextTask ==
    \/ \E t \in Details : StartCAS(t)
    \/ \E t \in Details : StartCheck(t)
    \/ \E t \in Details : StartFail(t)
    \/ \E t \in Details : StartDispatch(t)
    \/ \E t \in Details : GoExecute(t)
    \/ \E p \in DepPairs : AddDependency(p[1], p[2])
    \/ \E c \in TimeoutCalls : SetTimeout(c[1], c[2])
    \/ \E t \in Details : ExecuteOk(t)
    \/ \E t \in Details : ExecuteFail(t)
    \/ \E t \in Details : Retry(t)
    \/ \E t \in Details : RetryExecute(t)
    \/ \E t \in Details : SelectDone(t)
    \/ \E t \in Details : SelectTimeout(t)
    \/ \E t \in Details : CancelRunning(t)
    \/ \E t \in Details : CancelPending(t)
    \/ \E t \in Details : CancelAgain(t)

\* ======================================================================
\* ants-based Pool (src/OpenStress/pool/pool.go)
\* ======================================================================

\* the heap pool's variables this Pool struct does not have
heapOnlyVars == <<activeWorkers, tasks, workerExit, isRepeating, task, wpc, wtask, wfn,
                  orphans, execCount, pausedSubs,
                  mem, tasksArr, hpc, loc, spc, statpc, statloc, lateSubs>>

MinInt32 == -MaxInt32 - 1

\* atomic.AddInt32(&c, 1): two's-complement addition on 32 bits
AddInt32One(c) == IF c = MaxInt32 THEN MinInt32 ELSE c + 1

\* Go's % on int32 for a positive divisor: the result takes the sign of the dividend
GoRem(a, b) ==
    IF a >= 0 THEN a % b
    ELSE LET m == a % b IN IF m = 0 THEN 0 ELSE m - b

\* values of threadIDCounter at which the exploration starts: a fresh pool, and a
\* pool that has served MaxInt32 - 1 submissions
CounterStarts == {0, MaxInt32 - 1}

\* NewPool(n): ants.NewPool(n) with default options, threadIDCounter: 0
InitAnts ==
    /\ maxWorkers \in 0..MaxN
    /\ threadIDCounter \in CounterStarts
    /\ threadIDs = <<>>
    /\ antsBusy = 0
    /\ antsSubmit = "idle"
    /\ antsWpc = [w \in Procs |-> "none"]
    /\ antsReleased = FALSE
    /\ antsShut = "idle"
    /\ isPaused = 0
    /\ shutdownFlag = 0
    /\ crashed = FALSE
    /\ nSubmitted = 0
    /\ startCalls = 0
    \* fields of the heap pool
    /\ activeWorkers = 0
    /\ tasks = <<>>
    /\ workerExit = "open"
    /\ isRepeating = FALSE
    /\ task = <<>>
    /\ wpc = <<>>
    /\ wtask = <<>>
    /\ wfn = <<>>
    /\ orphans = <<>>
    /\ execCount = <<>>
    /\ pausedSubs = {}
    /\ mem = <<>>
    /\ tasksArr = 0
    /\ hpc = <<>>
    /\ loc = <<>>
    /\ spc = <<>>
    /\ statpc = "idle"
    /\ statloc = NoScan
    /\ lateSubs = {}
    \* no TaskDetail is in use
    /\ td = <<>>
    /\ tpc = <<>>
    /\ gpc = <<>>
    /\ cpc = <<>>
    /\ attempts = <<>>
    /\ startRet = <<>>
    /\ startWins = <<>>
    /\ startErrs = <<>>
    \* no list-based pool is in use
    /\ taskList = <<>>
    /\ lprio = <<>>
    /\ apc = <<>>
    /\ alocal = <<>>
    /\ aidx = <<>>
    /\ stopChannel = "open"
    /\ stopCloses = 0
    /\ tickLeft = FALSE
    /\ lstart = "idle"
    /\ lctl = "none"
    /\ lstop = "idle"
    /\ lwpc = <<>>
    /\ lwlist = <<>>
    /\ lwpos = <<>>
    /\ lwretries = <<>>
    \* no logger and no collector is in use
    /\ logChan = 0
    /\ logs = 0
    /\ lgpc = "recv"
    /\ dataChan = 0
    /\ callpc = <<>>
    /\ conspc = <<>>
    /\ collMu = 0
    /\ logClosed = FALSE
    /\ chans = <<>>
    /\ done = "open"
    /\ conschan = <<>>
    /\ ctlpc = "idle"
    /\ nInits = 0
    \* no WaitGroup-based pool is in use
    /\ wgCount = 0
    /\ wgWaiters = 0
    /\ wgSema = 0
    /\ ctxDone = FALSE
    /\ shutpc = "idle"
    \* no monitor is in use
    /\ monWg = 0
    /\ stopChan = "open"
    /\ metricsChan = 0
    /\ cmpc = "none"
    /\ grpc = "none"
    /\ mstop = "idle"

\* the ants pool has a free goroutine: with default options taskPool.Submit waits
\* for one when all maxWorkers of them are busy
AntsHasRoom == antsBusy < maxWorkers

\* Pool.Start: go p.worker() maxWorkers times
AntsStart ==
    /\ ~crashed
    /\ startCalls < MaxStarts
    /\ startCalls' = startCalls + 1
    /\ antsWpc' = [w \in Procs |-> IF w <= maxWorkers THEN "chkShutdown" ELSE antsWpc[w]]
    /\ UNCHANGED <<maxWorkers, isPaused, shutdownFlag, crashed, nSubmitted>>
    /\ UNCHANGED <<threadIDCounter, threadIDs, antsBusy, antsSubmit, antsReleased, antsShut>>
    /\ UNCHANGED heapOnlyVars
    /\ UNCHANGED taskVars
    /\ UNCHANGED auxVars

\* Pool.worker: if atomic.LoadInt32(&p.shutdownFlag) == 1 { return }
AntsWorkerChkShutdown(w) ==
    /\ ~crashed
    /\ antsWpc[w] = "chkShutdown"
    /\ antsWpc' = [antsWpc EXCEPT ![w] = IF shutdownFlag = 1 THEN "exited" ELSE "chkPause"]
    /\ UNCHANGED <<maxWorkers, isPaused, shutdownFlag, crashed, nSubmitted, startCalls>>
    /\ UNCHANGED <<threadIDCounter, threadIDs, antsBusy, antsSubmit, antsReleased, antsShut>>
    /\ UNCHANGED heapOnlyVars
    /\ UNCHANGED taskVars
    /\ UNCHANGED auxVars

\* Pool.worker: if atomic.LoadInt32(&p.isPaused) == 1 { time.Sleep(...); continue }
AntsWorkerChkPause(w) ==
    /\ ~crashed
    /\ antsWpc[w] = "chkPause"
    /\ antsWpc' = [antsWpc EXCEPT ![w] = IF isPaused = 1 THEN "chkShutdown" ELSE "submit"]
    /\ UNCHANGED <<maxWorkers, isPaused, shutdownFlag, crashed, nSubmitted, startCalls>>
    /\ UNCHANGED <<threadIDCounter, threadIDs, antsBusy, antsSubmit, antsReleased, antsShut>>
    /\ UNCHANGED heapOnlyVars
    /\ UNCHANGED taskVars
    /\ UNCHANGED auxVars

\* Pool.worker: p.taskPool.Submit of a "Sample-Task" returns: with an error on a
\* released pool, otherwise once a goroutine of the ants pool has taken the task;
\* the loop starts over
AntsWorkerSubmit(w) ==
    /\ ~crashed
    /\ antsWpc[w] = "submit"
    /\ IF antsReleased
       THEN UNCHANGED antsBusy
       ELSE /\ AntsHasRoom
            /\ antsBusy' = antsBusy + 1
    /\ antsWpc' = [antsWpc EXCEPT ![w] = "chkShutdown"]
    /\ UNCHANGED <<maxWorkers, isPaused, shutdownFlag, crashed, nSubmitted, startCalls>>
    /\ UNCHANGED <<threadIDCounter, threadIDs, antsSubmit, antsReleased, antsShut>>
    /\ UNCHANGED heapOnlyVars
    /\ UNCHANGED taskVars
    /\ UNCHANGED auxVars

\* a task function running in the ants pool returns (or panics and is recovered)
AntsTaskDone ==
    /\ ~crashed
    /\ antsBusy > 0
    /\ antsBusy' = antsBusy - 1
    /\ UNCHANGED <<maxWorkers, isPaused, shutdownFlag, crashed, nSubmitted, startCalls>>
    /\ UNCHANGED <<threadIDCounter, threadIDs, antsSubmit, antsWpc, antsReleased, antsShut>>
    /\ UNCHANGED heapOnlyVars
    /\ UNCHANGED taskVars
    /\ UNCHANGED auxVars

\* Pool.Pause
AntsPause ==
    /\ ~crashed
    /\ isPaused' = 1
    /\ UNCHANGED <<maxWorkers, shutdownFlag, crashed, nSubmitted, startCalls>>
    /\ UNCHANGED antsVars
    /\ UNCHANGED heapOnlyVars
    /\ UNCHANGED taskVars
    /\ UNCHANGED auxVars

\* Pool.Resume
AntsResume ==
    /\ ~crashed
    /\ isPaused' = 0
    /\ UNCHANGED <<maxWorkers, shutdownFlag, crashed, nSubmitted, startCalls>>
    /\ UNCHANGED antsVars
    /\ UNCHANGED heapOnlyVars
    /\ UNCHANGED taskVars
    /\ UNCHANGED auxVars

\* Pool.Shutdown: atomic.StoreInt32(&p.shutdownFlag, 1)
AntsShutdown ==
    /\ ~crashed
    /\ antsShut = "idle"
    /\ shutdownFlag' = 1
    /\ antsShut' = "release"
    /\ UNCHANGED <<maxWorkers, isPaused, crashed, nSubmitted, startCalls>>
    /\ UNCHANGED <<threadIDCounter, threadIDs, antsBusy, antsSubmit, antsWpc, antsReleased>>
    /\ UNCHANGED heapOnlyVars
    /\ UNCHANGED taskVars
    /\ UNCHANGED auxVars

\* Pool.Shutdown: p.taskPool.Release() (running tasks are not waited for), return
AntsRelease ==
    /\ ~crashed
    /\ antsShut = "release"
    /\ antsReleased' = TRUE
    /\ antsShut' = "returned"
    /\ UNCHANGED <<maxWorkers, isPaused, shutdownFlag, crashed, nSubmitted, startCalls>>
    /\ UNCHANGED <<threadIDCounter, threadIDs, antsBusy, antsSubmit, antsWpc>>
    /\ UNCHANGED heapOnlyVars
    /\ UNCHANGED taskVars
    /\ UNCHANGED auxVars

\* Pool.Submit, first part: threadID := atomic.AddInt32(&p.threadIDCounter, 1) %
\* p.maxWorkers; with maxWorkers = 0 the division panics in the caller
AntsSubmitID ==
    /\ ~crashed
    /\ antsSubmit = "idle"
    /\ nSubmitted < MaxAntsSubmits
    /\ threadIDCounter' = AddInt32One(threadIDCounter)
    /\ nSubmitted' = nSubmitted + 1
    /\ IF maxWorkers = 0
       THEN /\ crashed' = TRUE
            /\ UNCHANGED <<threadIDs, antsSubmit>>
       ELSE /\ threadIDs' = Append(threadIDs, GoRem(threadIDCounter', maxWorkers))
            /\ antsSubmit' = "handoff"
            /\ UNCHANGED crashed
    /\ UNCHANGED <<maxWorkers, isPaused, shutdownFlag, startCalls, antsBusy>>
    /\ UNCHANGED <<antsWpc, antsReleased, antsShut>>
    /\ UNCHANGED heapOnlyVars
    /\ UNCHANGED taskVars
    /\ UNCHANGED auxVars

\* Pool.Submit, second part: p.taskPool.Submit(...) returns.  On a released pool
\* it returns an error at once; otherwise it returns when a goroutine of the ants
\* pool has taken the task.
AntsSubmitHandoff ==
    /\ ~crashed
    /\ antsSubmit = "handoff"
    /\ IF antsReleased
       THEN UNCHANGED antsBusy
       ELSE /\ AntsHasRoom
            /\ antsBusy' = antsBusy + 1
    /\ antsSubmit' = "idle"
    /\ UNCHANGED <<maxWorkers, isPaused, shutdownFlag, crashed, nSubmitted, startCalls>>
    /\ UNCHANGED <<threadIDCounter, threadIDs, antsWpc, antsReleased, antsShut>>
    /\ UNCHANGED heapOnlyVars
    /\ UNCHANGED taskVars
    /\ UNCHANGED auxVars

NextAnts ==
    \/ AntsStart
    \/ \E w \in Procs : AntsWorkerChkShutdown(w)
    \/ \E w \in Procs : AntsWorkerChkPause(w)
    \/ \E w \in Procs : AntsWorkerSubmit(w)
    \/ AntsTaskDone
    \/ AntsPause
    \/ AntsResume
    \/ AntsShutdown
    \/ AntsRelease
    \/ AntsSubmitID
    \/ AntsSubmitHandoff

\* ======================================================================
\* list-based Pool (src/pool/pool.go): AddTask, executeWithRetry, Start, Stop
\* ======================================================================

MaxAdders == 2
Adders == 1..MaxAdders

\* Task.maxRetries as AddTask sets it
AddTaskMaxRetries == 3

\* the orders in which sync.Map.Range may visit the entries of m
RangeOrders(m) ==
    LET n == Len(m)
        bij == {p \in [1..n -> 1..n] : \A i, j \in 1..n : p[i] = p[j] => i = j}
    IN {[i \in 1..n |-> m[p[i]]] : p \in bij}

\* one element put into a slice sorted by priority, higher first, behind its equals
InsertStable(sorted, x, pr) ==
    LET k == Cardinality({i \in 1..Len(sorted) : pr[sorted[i]] >= pr[x]})
    IN SubSeq(sorted, 1, k) \o <<x>> \o SubSeq(sorted, k + 1, Len(sorted))

\* sort.SliceStable(s, func(i, j) bool { return s[i].priority > s[j].priority })
RECURSIVE SliceStable(_, _)
SliceStable(s, pr) ==
    IF s = <<>> THEN <<>>
    ELSE InsertStable(SliceStable(SubSeq(s, 1, Len(s) - 1), pr), s[Len(s)], pr)

\* sync.Map.Store(i, t) on keys 0..n-1
Store(m, i, t) == IF i < Len(m) THEN [m EXCEPT ![i + 1] = t] ELSE Append(m, t)

\* the counter of Pool.wg: Start adds 1, the goroutine of Start takes it back
ListWg == IF lctl \in {"spawn", "loop"} THEN 1 ELSE 0

\* NewPool(maxWorkers)
InitList ==
    /\ maxWorkers \in 0..MaxN
    /\ crashed = FALSE
    /\ taskList = <<>>
    /\ lprio = [a \in Adders |-> 0]
    /\ apc = [a \in Adders |-> "idle"]
    /\ alocal = [a \in Adders |-> <<>>]
    /\ aidx = [a \in Adders |-> 0]
    /\ stopChannel = "open"
    /\ stopCloses = 0
    /\ tickLeft = FALSE
    /\ lstart = "idle"
    /\ lctl = "none"
    /\ lstop = "idle"
    /\ lwpc = [w \in Procs |-> "none"]
    /\ lwlist = [w \in Procs |-> <<>>]
    /\ lwpos = [w \in Procs |-> 0]
    /\ lwretries = [w \in Procs |-> 0]
    \* fields of the heap pool
    /\ activeWorkers = 0
    /\ tasks = <<>>
    /\ isPaused = 0
    /\ shutdownFlag = 0
    /\ workerExit = "open"
    /\ isRepeating = FALSE
    /\ task = <<>>
    /\ nSubmitted = 0
    /\ startCalls = 0
    /\ wpc = <<>>
    /\ wtask = <<>>
    /\ wfn = <<>>
    /\ orphans = <<>>
    /\ execCount = <<>>
    /\ pausedSubs = {}
    /\ mem = <<>>
    /\ tasksArr = 0
    /\ hpc = <<>>
    /\ loc = <<>>
    /\ spc = <<>>
    /\ statpc = "idle"
    /\ statloc = NoScan
    /\ lateSubs = {}
    \* no TaskDetail is in use
    /\ td = <<>>
    /\ tpc = <<>>
    /\ gpc = <<>>
    /\ cpc = <<>>
    /\ attempts = <<>>
    /\ startRet = <<>>
    /\ startWins = <<>>
    /\ startErrs = <<>>
    \* no ants-based pool is in use
    /\ threadIDCounter = 0
    /\ threadIDs = <<>>
    /\ antsBusy = 0
    /\ antsSubmit = "idle"
    /\ antsWpc = <<>>
    /\ antsReleased = FALSE
    /\ antsShut = "idle"
    \* no logger and no collector is in use
    /\ logChan = 0
    /\ logs = 0
    /\ lgpc = "recv"
    /\ dataChan = 0
    /\ callpc = <<>>
    /\ conspc = <<>>
    /\ collMu = 0
    /\ logClosed = FALSE
    /\ chans = <<>>
    /\ done = "open"
    /\ conschan = <<>>
    /\ ctlpc = "idle"
    /\ nInits = 0
    \* no WaitGroup-based pool is in use
    /\ wgCount = 0
    /\ wgWaiters = 0
    /\ wgSema = 0
    /\ ctxDone = FALSE
    /\ shutpc = "idle"
    \* no monitor is in use
    /\ monWg = 0
    /\ stopChan = "open"
    /\ metricsChan = 0
    /\ cmpc = "none"
    /\ grpc = "none"
    /\ mstop = "idle"

\* AddTask(fn, priority), first half: Range into the local slice, append the new
\* task, sort
AddTaskRange(a, priority) ==
    /\ ~crashed
    /\ apc[a] = "idle"
    /\ lprio' = [lprio EXCEPT ![a] = priority]
    /\ \E o \in RangeOrders(taskList) :
          alocal' = [alocal EXCEPT ![a] = SliceStable(Append(o, a), lprio')]
    /\ aidx' = [aidx EXCEPT ![a] = 0]
    /\ apc' = [apc EXCEPT ![a] = "store"]
    /\ UNCHANGED <<taskList, stopChannel, stopCloses, tickLeft, lstart, lctl, lstop,
                   lwpc, lwlist, lwpos, lwretries>>
    /\ UNCHANGED poolVars
    /\ UNCHANGED taskVars
    /\ UNCHANGED antsVars
    /\ UNCHANGED listIdle

\* AddTask, one turn of "for i, t := range taskList { p.taskList.Store(i, t) }"
AddTaskStore(a) ==
    /\ ~crashed
    /\ apc[a] = "store"
    /\ taskList' = Store(taskList, aidx[a], alocal[a][aidx[a] + 1])
    /\ aidx' = [aidx EXCEPT ![a] = @ + 1]
    /\ apc' = [apc EXCEPT ![a] = IF aidx[a] + 1 = Len(alocal[a]) THEN "done" ELSE "store"]
    /\ UNCHANGED <<lprio, alocal, stopChannel, stopCloses, tickLeft, lstart, lctl, lstop,
                   lwpc, lwlist, lwpos, lwretries>>
    /\ UNCHANGED poolVars
    /\ UNCHANGED taskVars
    /\ UNCHANGED antsVars
    /\ UNCHANGED listIdle

\* Start(runDuration): p.wg.Add(1); go func() {...}(); then the caller is in p.wg.Wait()
ListStart ==
    /\ ~crashed
    /\ lstart = "idle"
    /\ lstart' = "waiting"
    /\ lctl' = IF maxWorkers = 0 THEN "loop" ELSE "spawn"
    /\ UNCHANGED <<taskList, lprio, apc, alocal, aidx, stopChannel, stopCloses, tickLeft,
                   lstop, lwpc, lwlist, lwpos, lwretries>>
    /\ UNCHANGED poolVars
    /\ UNCHANGED taskVars
    /\ UNCHANGED antsVars
    /\ UNCHANGED listIdle

\* the goroutine of Start: one turn of "for i := 0; i < p.maxWorkers; i++ {
\* p.taskPool.Submit(func() {...}) }"
CtlSpawn ==
    /\ ~crashed
    /\ lctl = "spawn"
    /\ LET w == CHOOSE v \in 1..maxWorkers :
                    lwpc[v] = "none" /\ \A u \in 1..(v - 1) : lwpc[u] # "none"
       IN /\ lwpc' = [lwpc EXCEPT ![w] = "select"]
          /\ lctl' = IF w = maxWorkers THEN "loop" ELSE "spawn"
    /\ UNCHANGED <<taskList, lprio, apc, alocal, aidx, stopChannel, stopCloses, tickLeft,
                   lstart, lstop, lwlist, lwpos, lwretries>>
    /\ UNCHANGED poolVars
    /\ UNCHANGED taskVars
    /\ UNCHANGED antsVars
    /\ UNCHANGED listIdle

\* the goroutine of Start, "case <-timeout": close(p.stopChannel), return; the deferred
\* ticker.Stop() and p.wg.Done() run.  Closing a closed channel panics.
CtlTimeout ==
    /\ ~crashed
    /\ lctl = "loop"
    /\ stopCloses' = stopCloses + 1
    /\ IF stopChannel = "closed"
       THEN /\ crashed' = TRUE
            /\ UNCHANGED <<stopChannel, lctl, tickLeft>>
       ELSE /\ stopChannel' = "closed"
            /\ lctl' = "done"
            /\ tickLeft' \in BOOLEAN
            /\ UNCHANGED crashed
    /\ UNCHANGED <<taskList, lprio, apc, alocal, aidx, lstart, lstop,
                   lwpc, lwlist, lwpos, lwretries>>
    /\ UNCHANGED <<maxWorkers, isPaused, shutdownFlag, nSubmitted, startCalls>>
    /\ UNCHANGED heapOnlyVars
    /\ UNCHANGED taskVars
    /\ UNCHANGED antsVars
    /\ UNCHANGED listIdle

\* the goroutine of Start, "case <-p.stopChannel": return
CtlStop ==
    /\ ~crashed
    /\ lctl = "loop"
    /\ stopChannel = "closed"
    /\ lctl' = "done"
    /\ tickLeft' \in BOOLEAN
    /\ UNCHANGED <<taskList, lprio, apc, alocal, aidx, stopChannel, stopCloses,
                   lstart, lstop, lwpc, lwlist, lwpos, lwretries>>
    /\ UNCHANGED poolVars
    /\ UNCHANGED taskVars
    /\ UNCHANGED antsVars
    /\ UNCHANGED listIdle

\* Start: p.wg.Wait() returns
StartReturn ==
    /\ ~crashed
    /\ lstart = "waiting"
    /\ ListWg = 0
    /\ lstart' = "returned"
    /\ UNCHANGED <<taskList, lprio, apc, alocal, aidx, stopChannel, stopCloses, tickLeft,
                   lctl, lstop, lwpc, lwlist, lwpos, lwretries>>
    /\ UNCHANGED poolVars
    /\ UNCHANGED taskVars
    /\ UNCHANGED antsVars
    /\ UNCHANGED listIdle

\* Stop(): close(p.stopChannel); then the caller is in p.wg.Wait()
ListStop ==
    /\ ~crashed
    /\ lstop = "idle"
    /\ stopCloses' = stopCloses + 1
    /\ IF stopChannel = "closed"
       THEN /\ crashed' = TRUE
            /\ UNCHANGED <<stopChannel, lstop>>
       ELSE /\ stopChannel' = "closed"
            /\ lstop' = "waiting"
            /\ UNCHANGED crashed
    /\ UNCHANGED <<taskList, lprio, apc, alocal, aidx, tickLeft, lstart, lctl,
                   lwpc, lwlist, lwpos, lwretries>>
    /\ UNCHANGED <<maxWorkers, isPaused, shutdownFlag, nSubmitted, startCalls>>
    /\ UNCHANGED heapOnlyVars
    /\ UNCHANGED taskVars
    /\ UNCHANGED antsVars
    /\ UNCHANGED listIdle

\* Stop: p.wg.Wait() returns
StopReturn ==
    /\ ~crashed
    /\ lstop = "waiting"
    /\ ListWg = 0
    /\ lstop' = "returned"
    /\ UNCHANGED <<taskList, lprio, apc, alocal, aidx, stopChannel, stopCloses, tickLeft,
                   lstart, lctl, lwpc, lwlist, lwpos, lwretries>>
    /\ UNCHANGED poolVars
    /\ UNCHANGED taskVars
    /\ UNCHANGED antsVars
    /\ UNCHANGED listIdle

\* where a worker closure goes when executeWithRetry has returned for the task at
\* lwpos: the next task of localTaskList, or back to the select
WorkerNext(w) ==
    IF lwpos[w] < Len(lwlist[w])
    THEN /\ lwpos' = [lwpos EXCEPT ![w] = @ + 1]
         /\ lwpc' = [lwpc EXCEPT ![w] = "exec"]
         /\ UNCHANGED lwlist
    ELSE /\ lwpos' = [lwpos EXCEPT ![w] = 0]
         /\ lwpc' = [lwpc EXCEPT ![w] = "select"]
         /\ lwlist' = [lwlist EXCEPT ![w] = <<>>]

\* worker closure, "case <-ticker.C": Range into localTaskList, sort, start on the
\* first task
LWTick(w) ==
    /\ ~crashed
    /\ lwpc[w] = "select"
    /\ lctl \in {"spawn", "loop"} \/ tickLeft
    /\ tickLeft' = (tickLeft /\ lctl \in {"spawn", "loop"})
    /\ \E o \in RangeOrders(taskList) :
          /\ lwlist' = [lwlist EXCEPT ![w] = SliceStable(o, lprio)]
          /\ lwpos' = [lwpos EXCEPT ![w] = IF o = <<>> THEN 0 ELSE 1]
          /\ lwpc' = [lwpc EXCEPT ![w] = IF o = <<>> THEN "select" ELSE "exec"]
    /\ lwretries' = [lwretries EXCEPT ![w] = 0]
    /\ UNCHANGED <<taskList, lprio, apc, alocal, aidx, stopChannel, stopCloses,
                   lstart, lctl, lstop>>
    /\ UNCHANGED poolVars
    /\ UNCHANGED taskVars
    /\ UNCHANGED antsVars
    /\ UNCHANGED listIdle

\* worker closure, "case <-p.stopChannel": return
LWStop(w) ==
    /\ ~crashed
    /\ lwpc[w] = "select"
    /\ stopChannel = "closed"
    /\ lwpc' = [lwpc EXCEPT ![w] = "exited"]
    /\ UNCHANGED <<taskList, lprio, apc, alocal, aidx, stopChannel, stopCloses, tickLeft,
                   lstart, lctl, lstop, lwlist, lwpos, lwretries>>
    /\ UNCHANGED poolVars
    /\ UNCHANGED taskVars
    /\ UNCHANGED antsVars
    /\ UNCHANGED listIdle

\* executeWithRetry: task.fn(threadID) returns nil
LWExecOk(w) ==
    /\ ~crashed
    /\ lwpc[w] = "exec"
    /\ WorkerNext(w)
    /\ lwretries' = [lwretries EXCEPT ![w] = 0]
    /\ UNCHANGED <<taskList, lprio, apc, alocal, aidx, stopChannel, stopCloses, tickLeft,
                   lstart, lctl, lstop>>
    /\ UNCHANGED poolVars
    /\ UNCHANGED taskVars
    /\ UNCHANGED antsVars
    /\ UNCHANGED listIdle

\* executeWithRetry: task.fn(threadID) returns an error; give up at
\* retries >= task.maxRetries, else retries++ and time.Sleep
LWExecFail(w) ==
    /\ ~crashed
    /\ lwpc[w] = "exec"
    /\ IF lwretries[w] >= AddTaskMaxRetries
       THEN /\ WorkerNext(w)
            /\ lwretries' = [lwretries EXCEPT ![w] = 0]
       ELSE /\ lwretries' = [lwretries EXCEPT ![w] = @ + 1]
            /\ lwpc' = [lwpc EXCEPT ![w] = "sleep"]
            /\ UNCHANGED <<lwlist, lwpos>>
    /\ UNCHANGED <<taskList, lprio, apc, alocal, aidx, stopChannel, stopCloses, tickLeft,
                   lstart, lctl, lstop>>
    /\ UNCHANGED poolVars
    /\ UNCHANGED taskVars
    /\ UNCHANGED antsVars
    /\ UNCHANGED listIdle

\* executeWithRetry: time.Sleep is over, the loop calls task.fn again
LWWake(w) ==
    /\ ~crashed
    /\ lwpc[w] = "sleep"
    /\ lwpc' = [lwpc EXCEPT ![w] = "exec"]
    /\ UNCHANGED <<taskList, lprio, apc, alocal, aidx, stopChannel, stopCloses, tickLeft,
                   lstart, lctl, lstop, lwlist, lwpos, lwretries>>
    /\ UNCHANGED poolVars
    /\ UNCHANGED taskVars
    /\ UNCHANGED antsVars
    /\ UNCHANGED listIdle

NextList ==
    \/ \E a \in Adders, priority \in Priorities : AddTaskRange(a, priority)
    \/ \E a \in Adders : AddTaskStore(a)
    \/ ListStart
    \/ CtlSpawn
    \/ CtlTimeout
    \/ CtlStop
    \/ StartReturn
    \/ ListStop
    \/ StopReturn
    \/ \E w \in Procs : LWTick(w)
    \/ \E w \in Procs : LWStop(w)
    \/ \E w \in Procs : LWExecOk(w)
    \/ \E w \in Procs : LWExecFail(w)
    \/ \E w \in Procs : LWWake(w)

\* ======================================================================
\* StressLogger (src/pool/log.go) and Collector (src/unnamed/part_013)
\* ======================================================================

\* capacities of logChan and dataChan (1000 each in the source), scaled down
LogChanCap == 2
DataChanCap == 2
\* Collector.batchSize, the capacity of the channel InitializeCollector makes (100
\* unless the configuration sets it), scaled down
BatchCap == 1
\* goroutines that call Log and CollectResult
MaxCallers == 2
Callers == 1..MaxCallers
\* Collector.numGoroutines: the consumer goroutines one call of processData starts
MaxConsumers == 1
\* calls of InitializeCollector explored
MaxInits == 1
\* the consumer goroutines of NewCollector and of the n-th InitializeCollector call
Consumers == 1..(MaxConsumers * (1 + MaxInits))
NewConsumers(n) == (MaxConsumers * n + 1)..(MaxConsumers * (n + 1))
\* the channels made for c.dataChan: by NewCollector, then by InitializeCollector
Chans == 1..(1 + MaxInits)
ChanCap(ch) == IF ch = 1 THEN DataChanCap ELSE BatchCap

\* "if len(logs) >= 10" in the goroutine of StressLogger.start
FlushBatch == 10

\* InitLogger with its writer goroutine, NewCollector with "go c.processData()".
\* One more goroutine (main in the source, with its deferred Close) calls
\* StressLogger.Close, Collector.Close, CloseCollector and InitializeCollector,
\* one call after the other.
InitSvc ==
    /\ logChan = 0
    /\ logClosed = FALSE
    /\ logs = 0
    /\ lgpc = "recv"
    /\ dataChan = 1
    /\ chans = [ch \in Chans |-> [len |-> 0, closed |-> FALSE]]
    /\ done = "open"
    /\ callpc = [c \in Callers |-> "idle"]
    /\ conspc = [k \in Consumers |-> IF k \in NewConsumers(0) THEN "start" ELSE "none"]
    /\ conschan = [k \in Consumers |-> 0]
    /\ collMu = 0
    /\ ctlpc = "idle"
    /\ nInits = 0
    \* no pool is in use
    /\ maxWorkers = 0
    /\ crashed = FALSE
    /\ activeWorkers = 0
    /\ tasks = <<>>
    /\ isPaused = 0
    /\ shutdownFlag = 0
    /\ workerExit = "open"
    /\ isRepeating = FALSE
    /\ task = <<>>
    /\ nSubmitted = 0
    /\ startCalls = 0
    /\ wpc = <<>>
    /\ wtask = <<>>
    /\ wfn = <<>>
    /\ orphans = <<>>
    /\ execCount = <<>>
    /\ pausedSubs = {}
    /\ mem = <<>>
    /\ tasksArr = 0
    /\ hpc = <<>>
    /\ loc = <<>>
    /\ spc = <<>>
    /\ statpc = "idle"
    /\ statloc = NoScan
    /\ lateSubs = {}
    \* no TaskDetail is in use
    /\ td = <<>>
    /\ tpc = <<>>
    /\ gpc = <<>>
    /\ cpc = <<>>
    /\ attempts = <<>>
    /\ startRet = <<>>
    /\ startWins = <<>>
    /\ startErrs = <<>>
    \* no ants-based pool is in use
    /\ threadIDCounter = 0
    /\ threadIDs = <<>>
    /\ antsBusy = 0
    /\ antsSubmit = "idle"
    /\ antsWpc = <<>>
    /\ antsReleased = FALSE
    /\ antsShut = "idle"
    \* no list-based pool is in use
    /\ taskList = <<>>
    /\ lprio = <<>>
    /\ apc = <<>>
    /\ alocal = <<>>
    /\ aidx = <<>>
    /\ stopChannel = "open"
    /\ stopCloses = 0
    /\ tickLeft = FALSE
    /\ lstart = "idle"
    /\ lctl = "none"
    /\ lstop = "idle"
    /\ lwpc = <<>>
    /\ lwlist = <<>>
    /\ lwpos = <<>>
    /\ lwretries = <<>>
    \* no WaitGroup-based pool is in use
    /\ wgCount = 0
    /\ wgWaiters = 0
    /\ wgSema = 0
    /\ ctxDone = FALSE
    /\ shutpc = "idle"
    \* no monitor is in use
    /\ monWg = 0
    /\ stopChan = "open"
    /\ metricsChan = 0
    /\ cmpc = "none"
    /\ grpc = "none"
    /\ mstop = "idle"

\* Log(level, message) is called: the entry is built, the caller is at
\* "l.logChan <- logMessage"
LogCall(c) ==
    /\ ~crashed
    /\ callpc[c] = "idle"
    /\ callpc' = [callpc EXCEPT ![c] = "log"]
    /\ UNCHANGED <<logChan, logClosed, logs, lgpc, dataChan, chans, done, conspc,
                   conschan, collMu, ctlpc, nInits, crashed>>
    /\ UNCHANGED svcIdle

\* "l.logChan <- logMessage" completes, Log returns (to CollectResult, which returns
\* too, when the call came from there); a send on the closed channel is a panic
LogSend(c) ==
    /\ ~crashed
    /\ callpc[c] \in {"log", "dropLog"}
    /\ logClosed \/ logChan < LogChanCap
    /\ IF logClosed
       THEN /\ crashed' = TRUE
            /\ UNCHANGED <<logChan, callpc>>
       ELSE /\ UNCHANGED crashed
            /\ logChan' = logChan + 1
            /\ callpc' = [callpc EXCEPT ![c] = "idle"]
    /\ UNCHANGED <<logClosed, logs, lgpc, dataChan, chans, done, conspc, conschan,
                   collMu, ctlpc, nInits>>
    /\ UNCHANGED svcIdle

\* goroutine of start: "for logMsg := range l.logChan { logs = append(logs, *logMsg)"
LogWriterRecv ==
    /\ ~crashed
    /\ lgpc = "recv"
    /\ logChan > 0
    /\ logChan' = logChan - 1
    /\ logs' = logs + 1
    /\ lgpc' = IF logs + 1 >= FlushBatch THEN "flush" ELSE "recv"
    /\ UNCHANGED <<logClosed, dataChan, chans, done, callpc, conspc, conschan, collMu,
                   ctlpc, nInits, crashed>>
    /\ UNCHANGED svcIdle

\* goroutine of start: l.flushLogs(logs) has written the batch; logs = nil
LogWriterFlush ==
    /\ ~crashed
    /\ lgpc = "flush"
    /\ logs' = 0
    /\ lgpc' = "recv"
    /\ UNCHANGED <<logChan, logClosed, dataChan, chans, done, callpc, conspc, conschan,
                   collMu, ctlpc, nInits, crashed>>
    /\ UNCHANGED svcIdle

\* goroutine of start: the channel is closed and empty, the range loop ends;
\* "if len(logs) > 0" decides on the last flush
LogWriterEnd ==
    /\ ~crashed
    /\ lgpc = "recv"
    /\ logClosed
    /\ logChan = 0
    /\ lgpc' = IF logs > 0 THEN "final" ELSE "exited"
    /\ UNCHANGED <<logChan, logClosed, logs, dataChan, chans, done, callpc, conspc,
                   conschan, collMu, ctlpc, nInits, crashed>>
    /\ UNCHANGED svcIdle

\* goroutine of start: the last l.flushLogs(logs), then the deferred l.wg.Done()
LogWriterFinal ==
    /\ ~crashed
    /\ lgpc = "final"
    /\ logs' = 0
    /\ lgpc' = "exited"
    /\ UNCHANGED <<logChan, logClosed, dataChan, chans, done, callpc, conspc, conschan,
                   collMu, ctlpc, nInits, crashed>>
    /\ UNCHANGED svcIdle

\* StressLogger.Close: "close(l.logChan)"; closing it a second time is a panic
StressLoggerClose ==
    /\ ~crashed
    /\ ctlpc = "idle"
    /\ IF logClosed
       THEN /\ crashed' = TRUE
            /\ UNCHANGED <<logClosed, ctlpc>>
       ELSE /\ UNCHANGED crashed
            /\ logClosed' = TRUE
            /\ ctlpc' = "logWait"
    /\ UNCHANGED <<logChan, logs, lgpc, dataChan, chans, done, callpc, conspc,
                   conschan, collMu, nInits>>
    /\ UNCHANGED svcIdle

\* StressLogger.Close: l.wg.Wait() returns when the goroutine of start is done;
\* l.file.Close(), return
StressLoggerCloseReturn ==
    /\ ~crashed
    /\ ctlpc = "logWait"
    /\ lgpc = "exited"
    /\ ctlpc' = "idle"
    /\ UNCHANGED <<logChan, logClosed, logs, lgpc, dataChan, chans, done, callpc,
                   conspc, conschan, collMu, nInits, crashed>>
    /\ UNCHANGED svcIdle

\* CollectResult(data): select { case c.dataChan <- data: default: c.logger.Log(...) };
\* the send case on a closed channel is a panic
CollectResult(c) ==
    /\ ~crashed
    /\ callpc[c] = "idle"
    /\ IF chans[dataChan].closed
       THEN /\ crashed' = TRUE
            /\ UNCHANGED <<chans, callpc>>
       ELSE /\ UNCHANGED crashed
            /\ IF chans[dataChan].len < ChanCap(dataChan)
               THEN /\ chans' = [chans EXCEPT ![dataChan].len = @ + 1]
                    /\ UNCHANGED callpc
               ELSE /\ callpc' = [callpc EXCEPT ![c] = "dropLog"]
                    /\ UNCHANGED chans
    /\ UNCHANGED <<logChan, logClosed, logs, lgpc, dataChan, done, conspc, conschan,
                   collMu, ctlpc, nInits>>
    /\ UNCHANGED svcIdle

\* goroutine of processData: "for data := range c.dataChan" evaluates c.dataChan,
\* once; the goroutine receives from that channel from now on
ConsumeStart(k) ==
    /\ ~crashed
    /\ conspc[k] = "start"
    /\ conschan' = [conschan EXCEPT ![k] = dataChan]
    /\ conspc' = [conspc EXCEPT ![k] = "recv"]
    /\ UNCHANGED <<logChan, logClosed, logs, lgpc, dataChan, chans, done, callpc,
                   collMu, ctlpc, nInits, crashed>>
    /\ UNCHANGED svcIdle

\* goroutine of processData: the range loop receives a record and calls
\* SaveSuccessResult or SaveFailureResult
ConsumeRecv(k) ==
    /\ ~crashed
    /\ conspc[k] = "recv"
    /\ chans[conschan[k]].len > 0
    /\ chans' = [chans EXCEPT ![conschan[k]].len = @ - 1]
    /\ conspc' = [conspc EXCEPT ![k] = "lock"]
    /\ UNCHANGED <<logChan, logClosed, logs, lgpc, dataChan, done, callpc, conschan,
                   collMu, ctlpc, nInits, crashed>>
    /\ UNCHANGED svcIdle

\* goroutine of processData: its channel is closed and empty, the range loop ends
\* and the goroutine returns through the deferred wg.Done()
ConsumeEnd(k) ==
    /\ ~crashed
    /\ conspc[k] = "recv"
    /\ chans[conschan[k]].closed
    /\ chans[conschan[k]].len = 0
    /\ conspc' = [conspc EXCEPT ![k] = "exited"]
    /\ UNCHANGED <<logChan, logClosed, logs, lgpc, dataChan, chans, done, callpc,
                   conschan, collMu, ctlpc, nInits, crashed>>
    /\ UNCHANGED svcIdle

\* Save...Result: c.mu.Lock(), then the append to c.results and the call of writeToJTL
ConsumeLock(k) ==
    /\ ~crashed
    /\ conspc[k] = "lock"
    /\ collMu = 0
    /\ collMu' = k
    /\ conspc' = [conspc EXCEPT ![k] = "save"]
    /\ UNCHANGED <<logChan, logClosed, logs, lgpc, dataChan, chans, done, callpc,
                   conschan, ctlpc, nInits, crashed>>
    /\ UNCHANGED svcIdle

\* Save...Result: writeToJTL returned nil; return nil through the deferred
\* c.mu.Unlock(), and the goroutine receives again
ConsumeOk(k) ==
    /\ ~crashed
    /\ conspc[k] = "save"
    /\ collMu' = 0
    /\ conspc' = [conspc EXCEPT ![k] = "recv"]
    /\ UNCHANGED <<logChan, logClosed, logs, lgpc, dataChan, chans, done, callpc,
                   conschan, ctlpc, nInits, crashed>>
    /\ UNCHANGED svcIdle

\* Save...Result: writeToJTL returned an error; c.logger.Log is called with c.mu held
ConsumeFail(k) ==
    /\ ~crashed
    /\ conspc[k] = "save"
    /\ conspc' = [conspc EXCEPT ![k] = "saveLog"]
    /\ UNCHANGED <<logChan, logClosed, logs, lgpc, dataChan, chans, done, callpc,
                   conschan, collMu, ctlpc, nInits, crashed>>
    /\ UNCHANGED svcIdle

\* Save...Result: the send on logChan of that Log call completes; return err through
\* the deferred c.mu.Unlock(); processData calls c.logger.Log in its turn
ConsumerSaveLogSend(k) ==
    /\ ~crashed
    /\ conspc[k] = "saveLog"
    /\ logClosed \/ logChan < LogChanCap
    /\ IF logClosed
       THEN /\ crashed' = TRUE
            /\ UNCHANGED <<logChan, collMu, conspc>>
       ELSE /\ UNCHANGED crashed
            /\ logChan' = logChan + 1
            /\ collMu' = 0
            /\ conspc' = [conspc EXCEPT ![k] = "log"]
    /\ UNCHANGED <<logClosed, logs, lgpc, dataChan, chans, done, callpc, conschan,
                   ctlpc, nInits>>
    /\ UNCHANGED svcIdle

\* goroutine of processData: the send on logChan of its own Log call completes
ConsumerLogSend(k) ==
    /\ ~crashed
    /\ conspc[k] = "log"
    /\ logClosed \/ logChan < LogChanCap
    /\ IF logClosed
       THEN /\ crashed' = TRUE
            /\ UNCHANGED <<logChan, conspc>>
       ELSE /\ UNCHANGED crashed
            /\ logChan' = logChan + 1
            /\ conspc' = [conspc EXCEPT ![k] = "recv"]
    /\ UNCHANGED <<logClosed, logs, lgpc, dataChan, chans, done, callpc, conschan,
                   collMu, ctlpc, nInits>>
    /\ UNCHANGED svcIdle

\* Collector.Close: "close(c.done)"; closing it a second time is a panic
CollectorClose ==
    /\ ~crashed
    /\ ctlpc = "idle"
    /\ IF done = "closed"
       THEN /\ crashed' = TRUE
            /\ UNCHANGED done
       ELSE /\ UNCHANGED crashed
            /\ done' = "closed"
    /\ UNCHANGED <<logChan, logClosed, logs, lgpc, dataChan, chans, callpc, conspc,
                   conschan, collMu, ctlpc, nInits>>
    /\ UNCHANGED svcIdle

\* CloseCollector: "close(c.dataChan)"; closing it a second time is a panic
CloseCollector ==
    /\ ~crashed
    /\ ctlpc = "idle"
    /\ IF chans[dataChan].closed
       THEN /\ crashed' = TRUE
            /\ UNCHANGED <<chans, ctlpc>>
       ELSE /\ UNCHANGED crashed
            /\ chans' = [chans EXCEPT ![dataChan].closed = TRUE]
            /\ ctlpc' = "closeDone"
    /\ UNCHANGED <<logChan, logClosed, logs, lgpc, dataChan, done, callpc, conspc,
                   conschan, collMu, nInits>>
    /\ UNCHANGED svcIdle

\* CloseCollector: "close(c.done)", a panic after Close() or an earlier
\* CloseCollector; then the numGoroutines goroutines "for range c.dataChan {}" are
\* started and wg.Wait() is called
CloseCollectorDone ==
    /\ ~crashed
    /\ ctlpc = "closeDone"
    /\ IF done = "closed"
       THEN /\ crashed' = TRUE
            /\ UNCHANGED <<done, ctlpc>>
       ELSE /\ UNCHANGED crashed
            /\ done' = "closed"
            /\ ctlpc' = "drain"
    /\ UNCHANGED <<logChan, logClosed, logs, lgpc, dataChan, chans, callpc, conspc,
                   conschan, collMu, nInits>>
    /\ UNCHANGED svcIdle

\* CloseCollector: one of its goroutines receives a record left in the channel and
\* drops it
CloseCollectorDrain ==
    /\ ~crashed
    /\ ctlpc = "drain"
    /\ chans[dataChan].len > 0
    /\ chans' = [chans EXCEPT ![dataChan].len = @ - 1]
    /\ UNCHANGED <<logChan, logClosed, logs, lgpc, dataChan, done, callpc, conspc,
                   conschan, collMu, ctlpc, nInits, crashed>>
    /\ UNCHANGED svcIdle

\* CloseCollector: the channel is empty, the loops of its goroutines end and
\* wg.Wait() returns; c.logger.Log is called
CloseCollectorWait ==
    /\ ~crashed
    /\ ctlpc = "drain"
    /\ chans[dataChan].len = 0
    /\ ctlpc' = "closeLog"
    /\ UNCHANGED <<logChan, logClosed, logs, lgpc, dataChan, chans, done, callpc,
                   conspc, conschan, collMu, nInits, crashed>>
    /\ UNCHANGED svcIdle

\* InitializeCollector: c.dataChan and c.done are replaced by new channels and
\* "go c.processData()" starts numGoroutines more consumers; the consumers that
\* have evaluated their range expression stay on the channel they took.
\* c.logger.Log is called.
InitializeCollector ==
    /\ ~crashed
    /\ ctlpc = "idle"
    /\ nInits < MaxInits
    /\ dataChan' = dataChan + 1
    /\ done' = "open"
    /\ conspc' = [k \in Consumers |->
                    IF k \in NewConsumers(nInits + 1) THEN "start" ELSE conspc[k]]
    /\ nInits' = nInits + 1
    /\ ctlpc' = "initLog"
    /\ UNCHANGED <<logChan, logClosed, logs, lgpc, chans, callpc, conschan, collMu,
                   crashed>>
    /\ UNCHANGED svcIdle

\* CloseCollector, InitializeCollector: the send on logChan of the closing Log call
\* completes, and the function returns
CollectorLogSend ==
    /\ ~crashed
    /\ ctlpc \in {"closeLog", "initLog"}
    /\ logClosed \/ logChan < LogChanCap
    /\ IF logClosed
       THEN /\ crashed' = TRUE
            /\ UNCHANGED <<logChan, ctlpc>>
       ELSE /\ UNCHANGED crashed
            /\ logChan' = logChan + 1
            /\ ctlpc' = "idle"
    /\ UNCHANGED <<logClosed, logs, lgpc, dataChan, chans, done, callpc, conspc,
                   conschan, collMu, nInits>>
    /\ UNCHANGED svcIdle

NextSvc ==
    \/ \E c \in Callers : LogCall(c)
    \/ \E c \in Callers : LogSend(c)
    \/ LogWriterRecv
    \/ LogWriterFlush
    \/ LogWriterEnd
    \/ LogWriterFinal
    \/ StressLoggerClose
    \/ StressLoggerCloseReturn
    \/ \E c \in Callers : CollectResult(c)
    \/ \E k \in Consumers : ConsumeStart(k)
    \/ \E k \in Consumers : ConsumeRecv(k)
    \/ \E k \in Consumers : ConsumeEnd(k)
    \/ \E k \in Consumers : ConsumeLock(k)
    \/ \E k \in Consumers : ConsumeOk(k)
    \/ \E k \in Consumers : ConsumeFail(k)
    \/ \E k \in Consumers : ConsumerSaveLogSend(k)
    \/ \E k \in Consumers : ConsumerLogSend(k)
    \/ CollectorClose
    \/ CloseCollector
    \/ CloseCollectorDone
    \/ CloseCollectorDrain
    \/ CloseCollectorWait
    \/ InitializeCollector
    \/ CollectorLogSend

\* ======================================================================
\* WaitGroup-based Pool (src/unnamed/part_011)
\* ======================================================================

\* the argument lists of Submit that are explored: a task that runs when it is
\* popped, one of higher priority, and one that is pushed back once before it runs
WgSubmitArgs == {[priority |-> 1, retries |-> 1],
                 [priority |-> 2, retries |-> 1],
                 [priority |-> 1, retries |-> 0]}

\* TaskQueue (l.34-54) is the code of the heap pool's TaskQueue, and both pools
\* call heap.Push and heap.Pop of container/heap on it without a lock: the steps
\* PushRead .. PushUpSwap and WorkerChkLen .. WorkerPopItem defined for the heap
\* pool are the steps of this pool too.

\* NewPool(maxWorkers): the context, the empty heap, and start() with its workers
InitWg ==
    /\ maxWorkers \in 0..MaxN
    /\ tasks = <<>>
    /\ task = [t \in TaskIds |-> [priority |-> 0, retries |-> 0]]
    /\ nSubmitted = 0
    /\ crashed = FALSE
    /\ wpc = [w \in Procs |-> IF w <= maxWorkers THEN "top" ELSE "none"]
    /\ wtask = [w \in Procs |-> 0]
    /\ execCount = [t \in TaskIds |-> 0]
    /\ mem = [a \in 1..MaxArrays |-> <<>>]
    /\ tasksArr = 1
    /\ hpc = [g \in Pushers |-> "none"]
    /\ loc = [g \in Pushers |-> NoLoc]
    /\ wgCount = 0
    /\ wgWaiters = 0
    /\ wgSema = 0
    /\ ctxDone = FALSE
    /\ shutpc = "idle"
    \* fields of the heap pool
    /\ activeWorkers = 0
    /\ isPaused = 0
    /\ shutdownFlag = 0
    /\ workerExit = "open"
    /\ isRepeating = FALSE
    /\ startCalls = 0
    /\ wfn = <<>>
    /\ orphans = <<>>
    /\ pausedSubs = {}
    /\ spc = <<>>
    /\ statpc = "idle"
    /\ statloc = NoScan
    /\ lateSubs = {}
    \* no TaskDetail is in use
    /\ td = <<>>
    /\ tpc = <<>>
    /\ gpc = <<>>
    /\ cpc = <<>>
    /\ attempts = <<>>
    /\ startRet = <<>>
    /\ startWins = <<>>
    /\ startErrs = <<>>
    \* no ants-based pool is in use
    /\ threadIDCounter = 0
    /\ threadIDs = <<>>
    /\ antsBusy = 0
    /\ antsSubmit = "idle"
    /\ antsWpc = <<>>
    /\ antsReleased = FALSE
    /\ antsShut = "idle"
    \* no list-based pool is in use
    /\ taskList = <<>>
    /\ lprio = <<>>
    /\ apc = <<>>
    /\ alocal = <<>>
    /\ aidx = <<>>
    /\ stopChannel = "open"
    /\ stopCloses = 0
    /\ tickLeft = FALSE
    /\ lstart = "idle"
    /\ lctl = "none"
    /\ lstop = "idle"
    /\ lwpc = <<>>
    /\ lwlist = <<>>
    /\ lwpos = <<>>
    /\ lwretries = <<>>
    \* no logger and no collector is in use
    /\ logChan = 0
    /\ logs = 0
    /\ lgpc = "recv"
    /\ dataChan = 0
    /\ callpc = <<>>
    /\ conspc = <<>>
    /\ collMu = 0
    /\ logClosed = FALSE
    /\ chans = <<>>
    /\ done = "open"
    /\ conschan = <<>>
    /\ ctlpc = "idle"
    /\ nInits = 0
    \* no monitor is in use
    /\ monWg = 0
    /\ stopChan = "open"
    /\ metricsChan = 0
    /\ cmpc = "none"
    /\ grpc = "none"
    /\ mstop = "idle"

\* sync.WaitGroup (Go 1.22, the toolchain of go.mod) keeps the counter and the
\* number of waiters in one atomic word and wakes the waiters through a
\* semaphore.  Add(delta) adds to the counter and panics when the counter gets
\* negative, or when a positive delta finds the counter at zero with waiters
\* registered; the Add that brings the counter to zero with waiters registered
\* then stores zero to the word and releases one wake-up per waiter.  Wait returns
\* at once when the counter is zero; else it registers as a waiter, sleeps on the
\* semaphore and, woken up, panics when the word is not zero any more.

\* Submit(fn, priority, retries), up to the call of heap.Push: p.wg.Add(1), which
\* panics ("Add called concurrently with Wait") when it raises the counter from
\* zero while a waiter is registered, and the Task is built
WgSubmit(g, priority, retries) ==
    /\ ~crashed
    /\ hpc[g] = "none"
    /\ nSubmitted < MaxTasks
    /\ wgCount' = wgCount + 1
    /\ nSubmitted' = nSubmitted + 1
    /\ IF wgWaiters # 0 /\ wgCount = 0
       THEN /\ crashed' = TRUE
            /\ UNCHANGED <<task, loc, hpc>>
       ELSE /\ UNCHANGED crashed
            /\ LET id == nSubmitted + 1 IN
               /\ task' = [task EXCEPT ![id] = [priority |-> priority,
                                                retries |-> retries]]
               /\ loc' = [loc EXCEPT ![g].x = id]
            /\ hpc' = [hpc EXCEPT ![g] = "read"]
    /\ UNCHANGED <<maxWorkers, tasks, wpc, wtask, execCount, mem, tasksArr, wgWaiters,
                   wgSema, ctxDone, shutpc>>
    /\ UNCHANGED wgIdle

\* Submit: heap.Push has returned, and Submit returns
WgSubmitReturn(g) ==
    /\ ~crashed
    /\ hpc[g] = "next"
    /\ hpc' = [hpc EXCEPT ![g] = "none"]
    /\ UNCHANGED <<maxWorkers, tasks, task, nSubmitted, crashed, wpc, wtask, execCount,
                   mem, tasksArr, loc, wgCount, ctxDone, shutpc,
                   wgWaiters, wgSema>>
    /\ UNCHANGED wgIdle

\* worker: "case <-p.ctx.Done(): return"
WgWorkerExit(w) ==
    /\ ~crashed
    /\ wpc[w] = "top"
    /\ ctxDone
    /\ wpc' = [wpc EXCEPT ![w] = "exited"]
    /\ UNCHANGED <<maxWorkers, tasks, task, nSubmitted, crashed, wtask, execCount,
                   mem, tasksArr, hpc, loc, wgCount, ctxDone, shutpc,
                   wgWaiters, wgSema>>
    /\ UNCHANGED wgIdle

\* worker: the select finds p.ctx.Done() not closed and takes the default branch
WgWorkerSelect(w) ==
    /\ ~crashed
    /\ wpc[w] = "top"
    /\ ~ctxDone
    /\ wpc' = [wpc EXCEPT ![w] = "chkLen"]
    /\ UNCHANGED <<maxWorkers, tasks, task, nSubmitted, crashed, wtask, execCount,
                   mem, tasksArr, hpc, loc, wgCount, ctxDone, shutpc,
                   wgWaiters, wgSema>>
    /\ UNCHANGED wgIdle

\* TaskQueue.Pop: "*tq = old[0 : n-1]; return item": the shortened header is
\* stored, and heap.Pop returns the item to the worker
WgWorkerPopTake(w) ==
    /\ ~crashed
    /\ wpc[w] = "popStore"
    /\ tasksArr' = loc[w].h.a
    /\ tasks' = SubSeq(mem[loc[w].h.a], 1, loc[w].h.n - 1)
    /\ wtask' = [wtask EXCEPT ![w] = loc[w].x]
    /\ loc' = [loc EXCEPT ![w] = NoLoc]
    /\ wpc' = [wpc EXCEPT ![w] = "chkRetries"]
    /\ UNCHANGED <<maxWorkers, task, nSubmitted, crashed, execCount, hpc, wgCount,
                   ctxDone, shutpc,
                   wgWaiters, wgSema>>
    /\ UNCHANGED wgIdle
    /\ mem' = Collect(mem)

\* worker: "if task.retries > 0 { task.fn()": the worker itself calls the function
WgWorkerChkRetries(w) ==
    /\ ~crashed
    /\ wpc[w] = "chkRetries"
    /\ IF task[wtask[w]].retries > 0
       THEN /\ execCount' = [execCount EXCEPT ![wtask[w]] = @ + 1]
            /\ wpc' = [wpc EXCEPT ![w] = "exec"]
       ELSE /\ wpc' = [wpc EXCEPT ![w] = "incRead"]
            /\ UNCHANGED execCount
    /\ UNCHANGED <<maxWorkers, tasks, task, nSubmitted, crashed, wtask, mem, tasksArr,
                   hpc, loc, wgCount, ctxDone, shutpc,
                   wgWaiters, wgSema>>
    /\ UNCHANGED wgIdle

\* worker: task.fn() returns; p.wg.Done() subtracts 1 from the counter, which
\* panics on a negative counter; when the counter reaches zero with a waiter
\* registered, Done goes on to release the waiter
WgWorkerExecDone(w) ==
    /\ ~crashed
    /\ wpc[w] = "exec"
    /\ IF wgCount = 0
       THEN /\ crashed' = TRUE
            /\ UNCHANGED <<wgCount, wpc, wtask>>
       ELSE /\ wgCount' = wgCount - 1
            /\ wpc' = [wpc EXCEPT ![w] =
                         IF wgCount - 1 > 0 \/ wgWaiters = 0 THEN "top" ELSE "release"]
            /\ wtask' = [wtask EXCEPT ![w] = 0]
            /\ UNCHANGED crashed
    /\ UNCHANGED <<maxWorkers, tasks, task, nSubmitted, execCount, mem, tasksArr, hpc,
                   loc, wgWaiters, wgSema, ctxDone, shutpc>>
    /\ UNCHANGED wgIdle

\* worker, inside p.wg.Done(): the word is read again (a panic when it has changed
\* since the subtraction), zero is stored to it and one wake-up per waiter is
\* released; Done returns
WgWorkerRelease(w) ==
    /\ ~crashed
    /\ wpc[w] = "release"
    /\ IF wgCount # 0 \/ wgWaiters = 0
       THEN /\ crashed' = TRUE
            /\ UNCHANGED <<wgCount, wgWaiters, wgSema, wpc>>
       ELSE /\ UNCHANGED crashed
            /\ wgCount' = 0
            /\ wgWaiters' = 0
            /\ wgSema' = wgSema + wgWaiters
            /\ wpc' = [wpc EXCEPT ![w] = "top"]
    /\ UNCHANGED <<maxWorkers, tasks, task, nSubmitted, wtask, execCount, mem, tasksArr,
                   hpc, loc, ctxDone, shutpc>>
    /\ UNCHANGED wgIdle

\* worker: "task.retries++", the read of the field (the value is kept in n)
WgWorkerRetry(w) ==
    /\ ~crashed
    /\ wpc[w] = "incRead"
    /\ loc' = [loc EXCEPT ![w].n = task[wtask[w]].retries]
    /\ wpc' = [wpc EXCEPT ![w] = "incWrite"]
    /\ UNCHANGED <<maxWorkers, tasks, task, nSubmitted, crashed, wtask, execCount, mem,
                   tasksArr, hpc, wgCount, ctxDone, shutpc,
                   wgWaiters, wgSema>>
    /\ UNCHANGED wgIdle

\* worker: "task.retries++", the write of the field; then heap.Push(&p.tasks, task)
\* is called
WgWorkerRePush(w) ==
    /\ ~crashed
    /\ wpc[w] = "incWrite"
    /\ task' = [task EXCEPT ![wtask[w]].retries = loc[w].n + 1]
    /\ loc' = [loc EXCEPT ![w].n = 0, ![w].x = wtask[w]]
    /\ hpc' = [hpc EXCEPT ![w] = "read"]
    /\ wpc' = [wpc EXCEPT ![w] = "push"]
    /\ UNCHANGED <<maxWorkers, tasks, nSubmitted, crashed, wtask, execCount, mem,
                   tasksArr, wgCount, ctxDone, shutpc,
                   wgWaiters, wgSema>>
    /\ UNCHANGED wgIdle

\* worker: heap.Push has returned; the loop starts over
WgWorkerPushed(w) ==
    /\ ~crashed
    /\ wpc[w] = "push"
    /\ hpc[w] = "next"
    /\ hpc' = [hpc EXCEPT ![w] = "none"]
    /\ wpc' = [wpc EXCEPT ![w] = "top"]
    /\ wtask' = [wtask EXCEPT ![w] = 0]
    /\ UNCHANGED <<maxWorkers, tasks, task, nSubmitted, crashed, execCount, mem,
                   tasksArr, loc, wgCount, ctxDone, shutpc,
                   wgWaiters, wgSema>>
    /\ UNCHANGED wgIdle

\* Shutdown(): p.cancel()
WgShutdown ==
    /\ ~crashed
    /\ shutpc = "idle"
    /\ ctxDone' = TRUE
    /\ shutpc' = "wait"
    /\ UNCHANGED <<maxWorkers, tasks, task, nSubmitted, crashed, wpc, wtask, execCount,
                   mem, tasksArr, hpc, loc, wgCount, wgWaiters, wgSema>>
    /\ UNCHANGED wgIdle

\* Shutdown: p.wg.Wait() reads the word: with the counter at zero it returns, and
\* so does Shutdown; else the CompareAndSwap registers the caller as a waiter, and
\* it sleeps on the semaphore
WgShutdownWait ==
    /\ ~crashed
    /\ shutpc = "wait"
    /\ IF wgCount = 0
       THEN /\ shutpc' = "returned"
            /\ UNCHANGED wgWaiters
       ELSE /\ shutpc' = "waiting"
            /\ wgWaiters' = wgWaiters + 1
    /\ UNCHANGED <<maxWorkers, tasks, task, nSubmitted, crashed, wpc, wtask, execCount,
                   mem, tasksArr, hpc, loc, wgCount, wgSema, ctxDone>>
    /\ UNCHANGED wgIdle

\* Shutdown: the waiter takes the wake-up released by the Done that brought the
\* counter to zero; a word that is not zero by now (Submit has added to the
\* counter since) is the panic "WaitGroup is reused before previous Wait has
\* returned"; else Wait and Shutdown return
WgShutdownReturn ==
    /\ ~crashed
    /\ shutpc = "waiting"
    /\ wgSema > 0
    /\ wgSema' = wgSema - 1
    /\ IF wgCount # 0 \/ wgWaiters # 0
       THEN /\ crashed' = TRUE
            /\ UNCHANGED shutpc
       ELSE /\ UNCHANGED crashed
            /\ shutpc' = "returned"
    /\ UNCHANGED <<maxWorkers, tasks, task, nSubmitted, wpc, wtask, execCount, mem,
                   tasksArr, hpc, loc, wgCount, wgWaiters, ctxDone>>
    /\ UNCHANGED wgIdle

\* the steps of one worker goroutine; the comparison of two children in down,
\* which needs a queue of four, is listed apart
WgWorkerStep(w) ==
    \/ WgWorkerExit(w)
    \/ WgWorkerSelect(w)
    \/ WorkerChkLen(w)
    \/ WorkerPopLen(w)
    \/ WorkerPopSift(w)
    \/ WorkerDownLess(w)
    \/ WorkerDownSwap(w)
    \/ WorkerPopHdr(w)
    \/ WorkerPopItem(w)
    \/ WgWorkerPopTake(w)
    \/ WgWorkerChkRetries(w)
    \/ WgWorkerExecDone(w)
    \/ WgWorkerRelease(w)
    \/ WgWorkerRetry(w)
    \/ WgWorkerRePush(w)
    \/ PushStep(w)
    \/ WgWorkerPushed(w)

\* NewPool(0) or NewPool(1): at most one worker
InitWgOne == InitWg /\ maxWorkers <= 1

\* a Submit call by goroutine g with any of the argument lists explored
WgSubmitAny(g) == \E a \in WgSubmitArgs : WgSubmit(g, a.priority, a.retries)

\* one worker at most; up to MaxSubmitters goroutines call Submit, another one
\* calls Shutdown.  (The queue never reaches four elements in these runs.)
NextWg ==
    \/ \E g \in Submitters : WgSubmitAny(g)
    \/ \E g \in Submitters : PushStep(g)
    \/ \E g \in Submitters : WgSubmitReturn(g)
    \/ \E w \in Procs : WgWorkerStep(w)
    \/ WgShutdown
    \/ WgShutdownWait
    \/ WgShutdownReturn

\* up to MaxProcs workers; one goroutine calls Submit; Shutdown is not called, so
\* no worker returns
NextWgWorkers ==
    \/ WgSubmitAny(Client)
    \/ PushStep(Client)
    \/ WgSubmitReturn(Client)
    \/ \E w \in Procs : WgWorkerStep(w)
    \/ \E w \in Procs : WorkerDownChild(w)

\* ======================================================================
\* Monitor (src/pool/monitor.go)
\* ======================================================================

\* capacity of metricsChan (100 in the source), scaled down
MetricsChanCap == 4

\* m.wg.Add(3) in Start
StartWgAdd == 3

\* NewMonitor(logger, interval, thresholds)
InitMon ==
    /\ monWg = 0
    /\ stopChan = "open"
    /\ metricsChan = 0
    /\ cmpc = "none"
    /\ grpc = "none"
    /\ mstop = "idle"
    \* no pool is in use
    /\ maxWorkers = 0
    /\ crashed = FALSE
    /\ activeWorkers = 0
    /\ tasks = <<>>
    /\ isPaused = 0
    /\ shutdownFlag = 0
    /\ workerExit = "open"
    /\ isRepeating = FALSE
    /\ task = <<>>
    /\ nSubmitted = 0
    /\ startCalls = 0
    /\ wpc = <<>>
    /\ wtask = <<>>
    /\ wfn = <<>>
    /\ orphans = <<>>
    /\ execCount = <<>>
    /\ pausedSubs = {}
    /\ mem = <<>>
    /\ tasksArr = 0
    /\ hpc = <<>>
    /\ loc = <<>>
    /\ spc = <<>>
    /\ statpc = "idle"
    /\ statloc = NoScan
    /\ lateSubs = {}
    \* no TaskDetail is in use
    /\ td = <<>>
    /\ tpc = <<>>
    /\ gpc = <<>>
    /\ cpc = <<>>
    /\ attempts = <<>>
    /\ startRet = <<>>
    /\ startWins = <<>>
    /\ startErrs = <<>>
    \* no ants-based pool is in use
    /\ threadIDCounter = 0
    /\ threadIDs = <<>>
    /\ antsBusy = 0
    /\ antsSubmit = "idle"
    /\ antsWpc = <<>>
    /\ antsReleased = FALSE
    /\ antsShut = "idle"
    \* no list-based pool is in use
    /\ taskList = <<>>
    /\ lprio = <<>>
    /\ apc = <<>>
    /\ alocal = <<>>
    /\ aidx = <<>>
    /\ stopChannel = "open"
    /\ stopCloses = 0
    /\ tickLeft = FALSE
    /\ lstart = "idle"
    /\ lctl = "none"
    /\ lstop = "idle"
    /\ lwpc = <<>>
    /\ lwlist = <<>>
    /\ lwpos = <<>>
    /\ lwretries = <<>>
    \* no logger and no collector is in use
    /\ logChan = 0
    /\ logs = 0
    /\ lgpc = "recv"
    /\ dataChan = 0
    /\ callpc = <<>>
    /\ conspc = <<>>
    /\ collMu = 0
    /\ logClosed = FALSE
    /\ chans = <<>>
    /\ done = "open"
    /\ conschan = <<>>
    /\ ctlpc = "idle"
    /\ nInits = 0
    \* no WaitGroup-based pool is in use
    /\ wgCount = 0
    /\ wgWaiters = 0
    /\ wgSema = 0
    /\ ctxDone = FALSE
    /\ shutpc = "idle"

\* Start(): m.wg.Add(3); go m.collectMetrics(); go m.generateReports()
MonStart ==
    /\ cmpc = "none"
    /\ monWg' = monWg + StartWgAdd
    /\ cmpc' = "select"
    /\ grpc' = "select"
    /\ UNCHANGED <<stopChan, metricsChan, mstop>>
    /\ UNCHANGED monIdle

\* Stop(): close(m.stopChan); then the caller is in m.wg.Wait()
MonStop ==
    /\ mstop = "idle"
    /\ stopChan' = "closed"
    /\ mstop' = "waiting"
    /\ UNCHANGED <<monWg, metricsChan, cmpc, grpc>>
    /\ UNCHANGED monIdle

\* Stop: m.wg.Wait() returns
MonStopReturn ==
    /\ mstop = "waiting"
    /\ monWg = 0
    /\ mstop' = "returned"
    /\ UNCHANGED <<monWg, stopChan, metricsChan, cmpc, grpc>>
    /\ UNCHANGED monIdle

\* collectMetrics, "case <-m.stopChan: return", with the deferred m.wg.Done()
MonCollectStop ==
    /\ cmpc = "select"
    /\ stopChan = "closed"
    /\ cmpc' = "exited"
    /\ monWg' = monWg - 1
    /\ UNCHANGED <<stopChan, metricsChan, grpc, mstop>>
    /\ UNCHANGED monIdle

\* collectMetrics, "case <-ticker.C": metrics := m.getSystemMetrics()
MonCollectTick ==
    /\ cmpc = "select"
    /\ cmpc' = "send"
    /\ UNCHANGED <<monWg, stopChan, metricsChan, grpc, mstop>>
    /\ UNCHANGED monIdle

\* collectMetrics, "m.metricsChan <- metrics" completes
MonCollectSend ==
    /\ cmpc = "send"
    /\ metricsChan < MetricsChanCap
    /\ metricsChan' = metricsChan + 1
    /\ cmpc' = "check"
    /\ UNCHANGED <<monWg, stopChan, grpc, mstop>>
    /\ UNCHANGED monIdle

\* collectMetrics, m.checkThresholds(metrics) returns
MonCollectCheck ==
    /\ cmpc = "check"
    /\ cmpc' = "select"
    /\ UNCHANGED <<monWg, stopChan, metricsChan, grpc, mstop>>
    /\ UNCHANGED monIdle

\* generateReports, "case <-m.stopChan: return", with the deferred m.wg.Done()
MonReportStop ==
    /\ grpc = "select"
    /\ stopChan = "closed"
    /\ grpc' = "exited"
    /\ monWg' = monWg - 1
    /\ UNCHANGED <<stopChan, metricsChan, cmpc, mstop>>
    /\ UNCHANGED monIdle

\* generateReports, "case <-ticker.C": m.generateReport() is called
MonReportTick ==
    /\ grpc = "select"
    /\ grpc' = "report"
    /\ UNCHANGED <<monWg, stopChan, metricsChan, cmpc, mstop>>
    /\ UNCHANGED monIdle

\* generateReports, m.generateReport() returns
MonReportDone ==
    /\ grpc = "report"
    /\ grpc' = "select"
    /\ UNCHANGED <<monWg, stopChan, metricsChan, cmpc, mstop>>
    /\ UNCHANGED monIdle

\* GetLatestMetrics() finds a value in metricsChan
GetLatestMetrics ==
    /\ metricsChan > 0
    /\ metricsChan' = metricsChan - 1
    /\ UNCHANGED <<monWg, stopChan, cmpc, grpc, mstop>>
    /\ UNCHANGED monIdle

NextMon ==
    \/ MonStart
    \/ MonStop
    \/ MonStopReturn
    \/ MonCollectStop
    \/ MonCollectTick
    \/ MonCollectSend
    \/ MonCollectCheck
    \/ MonReportStop
    \/ MonReportTick
    \/ MonReportDone
    \/ GetLatestMetrics

\* the steps of the goroutine collectMetrics, and of generateReports
MonCollectStep == MonCollectStop \/ MonCollectTick \/ MonCollectSend \/ MonCollectCheck
MonReportStep == MonReportStop \/ MonReportTick \/ MonReportDone

\* ======================================================================
\* Specifications
\* ======================================================================

\* the heap-based pool with one worker: Submit, Pause, Resume, Shutdown and task
\* functions that return, panic or overrun
SpecPool == InitPoolOne /\ [][NextPool]_vars

\* the heap-based pool with several workers when AdjustWorkers is never called
SpecPoolNoAdjust == InitPool /\ [][NextPoolNoAdjust]_vars

\* the heap-based pool with several workers and calls of AdjustWorkers
SpecPoolAdjust == InitPool /\ [][NextPoolAdjust]_vars

\* the heap-based pool with one worker and calls of GetTaskStatus
SpecPoolStatus == InitPoolOne /\ [][NextPoolStatus]_vars

\* TaskDetail under every interleaving of Start, the attempts, the deadline and Cancel
SpecTask == InitTask /\ [][NextTask]_vars

\* steps of the goroutines of TaskDetail that the Go scheduler runs whenever they
\* can run: the executeTask chain and the select of executeWithTimeout
TaskProgress(t) ==
    \/ StartCheck(t)
    \/ StartFail(t)
    \/ StartDispatch(t)
    \/ GoExecute(t)
    \/ ExecuteOk(t)
    \/ ExecuteFail(t)
    \/ Retry(t)
    \/ RetryExecute(t)
    \/ SelectDone(t)
    \/ SelectTimeout(t)

\* TaskDetail with a fair scheduler: a goroutine that can take a step takes it
SpecTaskFair ==
    /\ InitTask
    /\ [][NextTask]_vars
    /\ \A t \in Details : WF_vars(TaskProgress(t))

\* the ants-based pool: Start, Submit, Pause, Resume, Shutdown and its tasks
SpecAnts == InitAnts /\ [][NextAnts]_vars

\* the list-based pool: concurrent AddTask, Start with its workers, Stop
SpecList == InitList /\ [][NextList]_vars

\* the logger with its writer and the collector with its consumer, called by workers
SpecSvc == InitSvc /\ [][NextSvc]_vars

\* the WaitGroup-based pool with a fair scheduler: every worker that can take a step
\* takes it, task functions return, the caller of Shutdown goes on into Wait, and
\* a waiter that has been released wakes up
SpecWg ==
    /\ InitWgOne
    /\ [][NextWg]_vars
    /\ \A w \in Procs : WF_vars(WgWorkerStep(w))
    /\ WF_vars(WgShutdownWait)
    /\ WF_vars(WgShutdownReturn)

\* the WaitGroup-based pool with up to MaxProcs workers and one caller of Submit
SpecWgWorkers == InitWg /\ [][NextWgWorkers]_vars

\* the monitor with a fair scheduler: both goroutines keep taking steps, a select
\* whose stop branch is ready again and again takes it in the end, and a Wait that
\* can return returns; nobody is obliged to read metricsChan
SpecMon ==
    /\ InitMon
    /\ [][NextMon]_vars
    /\ WF_vars(MonCollectStep)
    /\ WF_vars(MonReportStep)
    /\ SF_vars(MonCollectStop)
    /\ SF_vars(MonReportStop)
    /\ WF_vars(MonStopReturn)

\* ======================================================================
\* Claims about the heap-based pool
\* ======================================================================

\* C1: in every reachable state of the pool, activeWorkers <= maxWorkers.
C1_ActiveWithinMax == activeWorkers <= maxWorkers

\* C2: without AdjustWorkers, the number of task functions executing at the same
\* instant never exceeds maxWorkers (the n given to NewPool).
C2_RunningWithinMax == RunningCount <= maxWorkers

\* C3: once shutdownFlag is set, no worker begins executing a task.
C3_NoStartAfterShutdown ==
    [][shutdownFlag = 1 => execCount' = execCount]_vars

\* C4: a task submitted after Pause and before the next Resume does not begin
\* executing in that interval.
C4_NoStartWhilePaused ==
    [][\A t \in pausedSubs : execCount'[t] = execCount[t]]_vars

\* a task whose Submit call has returned is neither queued nor in the hands of a
\* goroutine any more
Drained(t) ==
    /\ spc[t] = "done"
    /\ \A i \in 1..Len(tasks) : tasks[i] # t
    /\ \A g \in Pushers : loc[g].x # t
    /\ \A w \in Procs : wtask[w] # t
    /\ orphans[t] = NoOrphans

\* C5: no task is lost or duplicated: no task function is started twice, and a task
\* that has left the queue and its worker was executed exactly once.
C5_ExactlyOnce ==
    (shutdownFlag = 0 /\ ~crashed) =>
        \A t \in TaskIds : execCount[t] <= 1 /\ (Drained(t) => execCount[t] = 1)

\* C6: the task a worker obtains from the queue has a priority greater than or
\* equal to that of every task remaining in the queue.
C6_PopYieldsMax ==
    [][\A w \in Procs :
          (wpc[w] = "popStore" /\ wpc'[w] = "taken") =>
              \A i \in 1..Len(tasks') :
                  task[wtask'[w]].priority >= task[tasks'[i]].priority]_vars

\* ======================================================================
\* Claims about TaskDetail
\* ======================================================================

\* C7: a task's status only moves forward: it never returns to Pending, and once
\* Completed, Cancelled or Timeout it never changes.
C7_StatusForward ==
    [][\A t \in Details :
          /\ td[t].Status # TaskPending => td'[t].Status # TaskPending
          /\ td[t].Status \in {TaskCompleted, TaskCancelled, TaskTimeout}
                => td'[t].Status = td[t].Status]_vars

\* C8 as stated: RetryCount <= MaxRetries, RetryCount never decreases, and once
\* RetryCount equals MaxRetries no further attempt of Execute is made.
C8_NoAttemptAtMax ==
    [][\A t \in Details :
          /\ td'[t].RetryCount <= td'[t].MaxRetries
          /\ td'[t].RetryCount >= td[t].RetryCount
          /\ (td[t].RetryCount = td[t].MaxRetries /\ attempts[t] > 0)
                => attempts'[t] = attempts[t]]_vars

\* C8 amended: RetryCount <= MaxRetries, RetryCount never decreases, every attempt
\* of Execute is either the first or the one started by the latest retry (so there
\* are at most RetryCount + 1 attempts), and once RetryCount equals MaxRetries and
\* that attempt has failed, retry starts no further attempt.
C8_RetryCapped ==
    [][\A t \in Details :
          /\ td'[t].RetryCount <= td'[t].MaxRetries
          /\ td'[t].RetryCount >= td[t].RetryCount
          /\ attempts'[t] <= td'[t].RetryCount + 1
          /\ (gpc[t] = "retry" /\ td[t].RetryCount = td[t].MaxRetries)
                => (attempts'[t] = attempts[t] /\ gpc'[t] \notin {"sleep", "exec"})]_vars

\* a task used all its retries: MaxRetries > 0 retries and MaxRetries + 1 attempts
C8_Witness ==
    \E t \in Details :
        /\ td[t].MaxRetries > 0
        /\ td[t].RetryCount = td[t].MaxRetries
        /\ attempts[t] = td[t].MaxRetries + 1
        /\ gpc[t] \in {"exit", "sendErr"}

\* C9: a task with a dependency that is not Completed never has status Running;
\* its Start ends in Failed with the dependency error and Execute is never invoked.
C9_DependencyGate ==
    \A t \in Details :
        /\ ~checkDependencies(t) => td[t].Status # TaskRunning
        /\ startRet[t] = "depUnmet" => (td[t].Status = TaskFailed /\ attempts[t] = 0)

\* Start went past the dependency check and has returned, and the executeTask
\* chain has run to its end
RunOver(t) ==
    /\ tpc[t] = "ret"
    /\ startRet[t] \notin {"notPending", "depUnmet"}
    /\ gpc[t] \in {"exit", "sendNil", "sendErr"}

\* C10 as stated: a task whose Execute always fails is attempted exactly
\* MaxRetries + 1 times and then ends in status Failed with an error returned.
C10_ExhaustedEndsFailed ==
    \A t \in Details :
        (td[t].Execute = "fail" /\ RunOver(t)) =>
            /\ attempts[t] = td[t].MaxRetries + 1
            /\ td[t].Status = TaskFailed
            /\ startRet[t] # "nil"

\* C10 amended: the same, for a Start that did not return through the deadline
\* branch of executeWithTimeout (Timeout = 0, or the attempts finished first).
C10_ExhaustedNoDeadline ==
    \A t \in Details :
        (td[t].Execute = "fail" /\ startRet[t] \notin {"none", "notPending", "depUnmet", "timeout"}) =>
            /\ attempts[t] = td[t].MaxRetries + 1
            /\ td[t].Status = TaskFailed
            /\ startRet[t] = "exceeded"

\* an always-failing task with the largest MaxRetries has exhausted its retries
C10_Witness ==
    \E t \in Details :
        /\ td[t].Execute = "fail"
        /\ td[t].MaxRetries = MaxRetriesBound
        /\ startRet[t] = "exceeded"
        /\ attempts[t] = MaxRetriesBound + 1
        /\ td[t].Status = TaskFailed

\* C11: Cancelled is terminal and pre-empts retries: from a state where the status
\* is Cancelled (Cancel succeeded), the status stays Cancelled and no attempt or
\* retry of Execute is started.
C11_CancelledFinal ==
    [][\A t \in Details :
          td[t].Status = TaskCancelled =>
              /\ td'[t].Status = TaskCancelled
              /\ attempts'[t] = attempts[t]
              /\ td'[t].RetryCount = td[t].RetryCount]_vars

\* C12: Timeout is terminal: once executeWithTimeout has stored Timeout, the
\* status is Timeout in every later state, also after the abandoned attempt returns.
C12_TimeoutFinal ==
    [][\A t \in Details :
          (td[t].Status = TaskTimeout /\ startRet[t] = "timeout")
              => td'[t].Status = TaskTimeout]_vars

\* C13: for a task with Timeout > 0 whose Start waits in executeWithTimeout, the
\* deadline branch can be taken at once in every state of the attempt (Execute
\* running, retry, backoff sleep): it stores Timeout and returns the timeout error
\* without any step of the executeTask chain.
C13_DeadlinePreempts ==
    \A t \in Details :
        (td[t].Timeout > 0 /\ tpc[t] = "select") =>
            ENABLED (/\ SelectTimeout(t)
                     /\ td'[t].Status = TaskTimeout
                     /\ startRet'[t] = "timeout"
                     /\ tpc'[t] = "ret"
                     /\ gpc'[t] = gpc[t]
                     /\ attempts'[t] = attempts[t])

\* Start returned the timeout error while the attempt was still under way
C13_Witness ==
    \E t \in Details :
        /\ td[t].Timeout > 0
        /\ tpc[t] = "ret"
        /\ startRet[t] = "timeout"
        /\ td[t].Status = TaskTimeout
        /\ gpc[t] \in {"exec", "retry", "sleep"}

\* C14: a task whose timeout is zero is never timed out: while the pool is not
\* shut down, executeTask never gives up such a task's function on ctx.Done().
C14_ZeroNeverTimedOut ==
    [][\A t \in TaskIds :
          (task[t].timeout = 0 /\ workerExit = "open")
              => orphans'[t].spawned + orphans'[t].running
                     <= orphans[t].spawned + orphans[t].running]_vars

\* C15: Start proceeds only from Pending.  A Start call on a task in any other
\* status returns the error and leaves the whole TaskDetail (Status, RetryCount,
\* StartTime) and the number of attempts unchanged; a call proceeds only when the
\* status was Pending; at most one call ever proceeds, and when a call was refused
\* either another call proceeded or the task was cancelled while Pending.
C15_StartOnlyFromPending ==
    [][\A t \in Details :
          /\ startErrs'[t] > startErrs[t] =>
                 (td[t].Status # TaskPending /\ td'[t] = td[t] /\ attempts'[t] = attempts[t])
          /\ startWins'[t] > startWins[t] => td[t].Status = TaskPending
          /\ startWins'[t] <= 1
          /\ startErrs'[t] > 0 => (startWins'[t] = 1 \/ td'[t].Status = TaskCancelled)]_vars

\* two Start calls were made on a task: one proceeded to an attempt, one was refused
C15_Witness ==
    \E t \in Details :
        /\ startWins[t] = 1
        /\ startErrs[t] = 1
        /\ attempts[t] >= 1
        /\ td[t].Status # TaskCancelled

\* C16: Cancel succeeds exactly when the status is Pending or Running: a Cancel
\* call returns its error only if the status at that moment is neither, also when
\* the call overlaps Start's move from Pending to Running; and a Cancel that
\* succeeds leaves the status Cancelled.
C16_CancelExact ==
    [][\A t \in Details :
          /\ (cpc[t] # "err" /\ cpc'[t] = "err")
                => td[t].Status \notin {TaskPending, TaskRunning}
          /\ (cpc[t] # "ok" /\ cpc'[t] = "ok") => td'[t].Status = TaskCancelled]_vars

\* live worker loops of the heap pool
LiveWorkers == IF crashed THEN {} ELSE {w \in Procs : wpc[w] \notin {"none", "exited"}}

\* C17: a task is owned by at most one worker at a time: no two workers hold the
\* same task taken from the queue.
C17_SingleOwner ==
    \A w1 \in Procs : \A w2 \in Procs :
        (w1 # w2 /\ wtask[w1] # 0) => wtask[w1] # wtask[w2]

\* C18: the queue only holds tasks that have not started: no element of the queue
\* is a task whose function has been started.
C18_QueueHoldsUnstarted ==
    \A i \in 1..Len(tasks) : execCount[tasks[i]] = 0

\* C19: a panic inside a task function is contained: after it the process is
\* alive and the worker that ran the task is still a live worker loop.
C19_PanicContained ==
    \A w \in Procs : wfn[w] = "panicked" => w \in LiveWorkers

\* C20: whenever Execute is being invoked for a retry attempt (not the first
\* attempt) of a task that was neither cancelled nor timed out, its status is Running.
C20_RetryRunsAsRunning ==
    \A t \in Details :
        (gpc[t] = "exec" /\ attempts[t] > 1
            /\ td[t].Status \notin {TaskCancelled, TaskTimeout})
          => td[t].Status = TaskRunning

\* the executeTask chain of a started task is over and left the status Failed, or
\* Start failed the task for an unmet dependency
TerminallyFailed(t) ==
    /\ td[t].Status = TaskFailed
    /\ tpc[t] = "ret"
    /\ gpc[t] \in {"none", "exit", "sendErr"}

\* C21: whenever a task's status is Completed, terminally Failed, Timeout or
\* Cancelled, its EndTime has been set; and once an attempt was made StartTime is set.
C21_EndTimeOnTerminal ==
    \A t \in Details :
        /\ (td[t].Status \in {TaskCompleted, TaskTimeout, TaskCancelled} \/ TerminallyFailed(t))
              => td[t].EndTime = 1
        /\ attempts[t] > 0 => td[t].StartTime = 1

\* C22: whenever a task is in terminal status Failed or Timeout, its Error field
\* is non-nil, also when the failure was an unmet dependency or a timeout.
C22_ErrorOnFailure ==
    \A t \in Details :
        (TerminallyFailed(t) \/ (td[t].Status = TaskTimeout /\ tpc[t] = "ret"))
            => td[t].Error # "nil"

\* C23: once Start has returned for a task, its status and error do not change any
\* more, so two successive reads return the same values.
C23_ReadIdempotent ==
    [][\A t \in Details :
          tpc[t] = "ret" =>
              (td'[t].Status = td[t].Status /\ td'[t].Error = td[t].Error)]_vars

\* C24: GetTaskStatus returns the task for every id that was submitted, whether
\* the task is queued, running or finished: a call that ends with "task not
\* found" was made for an id no Submit call had returned for.
C24_KnownIdsFound ==
    statpc = "notFound" => ~statloc.known

\* C25: after Shutdown, a Submit call neither adds to the queue nor changes
\* activeWorkers.
C25_SubmitAfterShutdownNoop ==
    [][\A id \in lateSubs :
          /\ (spc[id] = "push" /\ hpc'[Client] # hpc[Client]) => tasks' = tasks
          /\ (spc[id] = "push" /\ spc'[id] = "done") => activeWorkers' = activeWorkers]_vars

\* C26: a step of AdjustWorkers that spawns worker loops (a spawn outside
\* Pool.Start) raises maxWorkers by the number of loops spawned, and a step that
\* changes maxWorkers stops no worker.
C26_AdjustSetsMax ==
    [][/\ (startCalls' = startCalls /\ Spawned' # Spawned)
             => maxWorkers' = maxWorkers + Cardinality(Spawned') - Cardinality(Spawned)
       /\ maxWorkers' # maxWorkers => LiveWorkers' = LiveWorkers]_vars

\* ======================================================================
\* Claims about the ants-based pool, construction and shutdown
\* ======================================================================

\* C27: the worker-slot id handed to each submitted task's function is in
\* 0..maxWorkers-1, for every number of prior submissions, also after the 32-bit
\* counter wraps around.
C27_SlotInRange ==
    \A i \in 1..Len(threadIDs) : threadIDs[i] >= 0 /\ threadIDs[i] <= maxWorkers - 1

\* C28: Submit returns without waiting for capacity: a Submit call that has
\* reached the hand-over to the worker pool can always complete at once, however
\* many tasks are executing.
C28_SubmitNeverWaits ==
    (antsSubmit = "handoff" /\ ~crashed) => ENABLED AntsSubmitHandoff

\* C29: NewPool(maxWorkers) with maxWorkers <= 0 gives no usable pool: no pool
\* built with maxWorkers <= 0 ever accepts a task.
C29_NonPositiveRejected == maxWorkers <= 0 => nSubmitted = 0

\* C30: Shutdown waits for all tasks to complete: in the state in which Shutdown
\* returns no task is queued, held by a worker or executing.
C30_ShutdownDrains ==
    [][(workerExit = "open" /\ workerExit' = "closed")
          => (tasks' = <<>> /\ (\A w \in Procs : wtask'[w] = 0) /\ RunningCount' = 0)]_vars

\* ======================================================================
\* Claims about counters, goroutines and the services around the pool
\* ======================================================================

\* C34: in the heap pool activeWorkers is never negative and, whenever no Submit
\* call is between its push and its increment, equals the number of submitted
\* tasks that have not finished: those queued plus those held by a worker.
C34_ActiveCountsUnfinished ==
    /\ activeWorkers >= 0
    /\ hpc[Client] = "none" =>
           activeWorkers = Len(tasks) + Cardinality({w \in Procs : wtask[w] # 0})

\* C35: every goroutine started by executeWithTimeout terminates once Execute has
\* returned: a goroutine that has its result to report on done eventually exits.
C35_AttemptGoroutineExits ==
    \A t \in Details : (gpc[t] \in {"sendNil", "sendErr"}) ~> (gpc[t] = "exit")

\* C31: Start(runDuration) waits for the worker goroutines: when Start has returned,
\* no worker is still executing a task (inside executeWithRetry).
C31_StartWaitsForWorkers ==
    lstart = "returned" => \A w \in Procs : lwpc[w] \notin {"exec", "sleep"}

\* C32: CollectResult never blocks its caller: whether the record was enqueued or
\* dropped with an error logged, the caller can go on without waiting for a consumer.
C32_CollectNeverBlocks ==
    \A c \in Callers : ~crashed /\ callpc[c] = "dropLog" => ENABLED LogSend(c)

\* C33: Log never blocks its caller: whatever number of entries is pending, the
\* caller inside Log can complete the call without waiting for the writer.
C33_LogNeverBlocks ==
    \A c \in Callers : ~crashed /\ callpc[c] = "log" => ENABLED LogSend(c)

\* C36: in the WaitGroup-based pool with at least one worker, when the tasks were all
\* submitted before Shutdown is called, the call to Shutdown eventually returns
\* (whether it is still entering Wait or asleep in it).  A run in which the
\* process dies of a panic is not held against the claim.
C36_ShutdownReturns ==
    []((/\ maxWorkers > 0
        /\ shutpc = "idle"
        /\ nSubmitted = MaxTasks
        /\ \A g \in Submitters : hpc[g] = "none")
           => [](shutpc \in {"wait", "waiting"}
                    => <>(shutpc = "returned" \/ crashed)))

\* C37: close(p.stopChannel) is executed at most once in the life of a pool.
C37_StopChannelClosedOnce == stopCloses <= 1

\* C38: once no AddTask call is under way, the task list holds the task of every
\* completed AddTask call exactly once.
C38_AddedExactlyOnce ==
    (\A a \in Adders : apc[a] # "store")
        => \A a \in Adders :
              apc[a] = "done"
                  => Cardinality({i \in 1..Len(taskList) : taskList[i] = a}) = 1

\* C39: a call to Stop made after Start eventually returns, whether or not anybody
\* reads metricsChan.
C39_StopReturns ==
    [](cmpc # "none" /\ mstop = "idle"
          => [](mstop = "waiting" => <>(mstop = "returned")))

====
